---- MODULE Spec2Model ----
(***************************************************************************)
(* Model of the metadata graph layer of zoocore_maya:                      *)
(*   zoo/libs/maya/meta/base.py   (MetaBase, MetaFactory, MetaRegistry,    *)
(*                                 lockMetaManager)                        *)
(*   zoo/libs/maya/api/plugs.py   (connectPlugs, disconnectPlug,           *)
(*                                 setLockedContext, iterDependencyGraph)  *)
(*   zoo/libs/maya/api/nodes.py   (lockNode, addAttribute, iterConnections)*)
(*                                                                         *)
(* The scene of the host application is one record, `scene`.  Every python *)
(* function is an operator from a scene (and its arguments) to a result    *)
(* record [s, out, ctx, body, q]: the scene it leaves, how it ended (a     *)
(* return value or the name of the exception that escaped), whether the    *)
(* exception escaped from inside a `with setLockedContext` block, the node *)
(* lock the wrapped body of a lockMetaManager method observed, and the     *)
(* queue of the caller's MDGModifier.                                      *)
(*                                                                         *)
(* Host behaviour assumed (Maya): a locked node cannot be deleted or       *)
(* renamed and cannot gain, lose or rename attributes; a locked attribute  *)
(* cannot be deleted, renamed, set, or be the destination of a connect or  *)
(* disconnect; a destination plug has at most one source; MPlug.isLocked   *)
(* can be assigned whatever the node lock is; deleting a node removes      *)
(* every connection that touches it.                                       *)
(***************************************************************************)
EXTENDS Integers, Sequences, FiniteSets, TLC

VARIABLES scene, pending, last, walk, nops

vars == <<scene, pending, last, walk, nops>>

(* ------------------------------ bounds --------------------------------- *)
NumNodes == 3
MaxIdx == 2
MaxOps == 2
MaxDepth == 3
RecursionLimit == 5

Nodes == 1..NumNodes
Indices == 0..(MaxIdx - 1)
DepthLimits == (0 - 1)..MaxDepth

(* ---------------------------- attribute names -------------------------- *)
MCLASS_ATTR_NAME == "mClass"
MVERSION_ATTR_NAME == "mVersion"
MPARENT_ATTR_NAME == "mMetaParent"
MCHILDREN_ATTR_NAME == "mMetaChildren"

StringAttrs == {MCLASS_ATTR_NAME, MVERSION_ATTR_NAME, "testAttr", "bob"}
ArrayAttrs == {MPARENT_ATTR_NAME}
SimpleMsgAttrs == {MCHILDREN_ATTR_NAME, "rel", "metaNode"}
MessageAttrs == SimpleMsgAttrs \cup ArrayAttrs
(* a name that is asked for with a Type nodes.addAttribute has no branch for *)
UnknownTypeAttrs == {"odd"}

AttrOrder == <<"mClass", "mVersion", "mMetaParent", "mMetaChildren", "rel", "metaNode", "testAttr", "bob">>

Errors == {"ValueError", "RuntimeError", "AttributeError", "TypeError", "KeyError",
           "UnboundLocalError"}

(* a value handed to a string attribute: a python str, or 10 (an int) *)
WrongType == "<int 10>"

(* ------------------------------- plugs --------------------------------- *)
(* an MPlug is <<node, attribute, index>>; index -1 is the attribute       *)
(* itself, index i >= 0 the element i of an array attribute                *)
Plug(n, a) == <<n, a, -1>>
Elem(n, a, i) == <<n, a, i>>
PlugNode(p) == p[1]
PlugAttr(p) == p[2]
MsgPlugs == {Plug(n, a) : n \in Nodes, a \in SimpleMsgAttrs}
              \cup {Elem(n, a, i) : n \in Nodes, a \in ArrayAttrs, i \in Indices}

AttrIndex(a) == CHOOSE i \in 1..Len(AttrOrder) : AttrOrder[i] = a
PlugRank(p) == (p[1] * 100) + (AttrIndex(p[2]) * 10) + (p[3] + 1)

RECURSIVE SortPlugs(_)
SortPlugs(S) ==
    IF S = {} THEN <<>>
    ELSE LET m == CHOOSE x \in S : \A y \in S : PlugRank(x) <= PlugRank(y)
         IN <<m>> \o SortPlugs(S \ {m})

(* ----------------------------- result record --------------------------- *)
R(s, out) == [s |-> s, out |-> out, ctx |-> FALSE, body |-> FALSE, q |-> <<>>]
IsErr(r) == r.out \in Errors
(* sequencing: an exception ends the function, otherwise the next statement *)
(* runs on the result                                                      *)
Then(r, F(_)) == IF IsErr(r) THEN r ELSE F(r)

(* ------------------------ host scene observers ------------------------- *)
exists(s, n) == n \in s.alive
isLocked(s, n) == n \in s.nlock
hasAttribute(s, n, a) == n \in s.alive /\ a \in s.attrs[n]
plugIsLocked(s, p) == <<p[1], p[2]>> \in s.plock
plugExists(s, p) == hasAttribute(s, p[1], p[2])
isDestination(s, p) == \E e \in s.edges : e[2] = p
isSource(s, p) == \E e \in s.edges : e[1] = p
isConnected(s, p) == isDestination(s, p) \/ isSource(s, p)
source(s, p) == (CHOOSE e \in s.edges : e[2] = p)[1]
destinations(s, p) == SortPlugs({e[2] : e \in {d \in s.edges : d[1] = p}})

(* MFnDependencyNode.getConnections: the connected plugs of a node *)
getConnections(s, n) ==
    SortPlugs({p \in {e[1] : e \in s.edges} \cup {e[2] : e \in s.edges} : p[1] = n})

(* ------------------------ host scene primitives ------------------------ *)
(* plug.isLocked = state *)
setIsLocked(s, p, state) ==
    [s EXCEPT !.plock = IF state THEN @ \cup {<<p[1], p[2]>>}
                                  ELSE @ \ {<<p[1], p[2]>>}]

(* MDGModifier.setNodeLockState + doIt, cmds.lockNode *)
setNodeLockState(s, n, state) ==
    [s EXCEPT !.nlock = IF state THEN @ \cup {n} ELSE @ \ {n}]

(* MDGModifier.addAttribute + doIt *)
dgAddAttribute(s, n, a) ==
    IF ~exists(s, n) \/ isLocked(s, n) \/ a \in s.attrs[n]
    THEN R(s, "RuntimeError")
    ELSE R([s EXCEPT !.attrs[n] = @ \cup {a}], "ok")

(* what is left of the scene when attribute a of node n goes away *)
dropAttribute(s, n, a) ==
    [s EXCEPT !.attrs[n] = @ \ {a},
              !.plock = @ \ {<<n, a>>},
              !.val[n] = IF a \in StringAttrs THEN [@ EXCEPT ![a] = ""] ELSE @,
              !.edges = {e \in @ : ~(e[1][1] = n /\ e[1][2] = a)
                                    /\ ~(e[2][1] = n /\ e[2][2] = a)}]

(* cmds.deleteAttr, MDGModifier.removeAttribute + doIt *)
deleteAttr(s, n, a) ==
    IF ~hasAttribute(s, n, a) \/ isLocked(s, n) \/ <<n, a>> \in s.plock
    THEN R(s, "RuntimeError")
    ELSE R(dropAttribute(s, n, a), "ok")

(* MDGModifier.connect + doIt *)
dgConnect(s, src, dst) ==
    IF ~plugExists(s, src) \/ ~plugExists(s, dst) \/ src = dst
       \/ plugIsLocked(s, dst) \/ isDestination(s, dst)
    THEN R(s, "RuntimeError")
    ELSE R([s EXCEPT !.edges = @ \cup {<<src, dst>>}], "ok")

(* MDGModifier.disconnect + doIt *)
dgDisconnect(s, src, dst) ==
    IF <<src, dst>> \notin s.edges \/ plugIsLocked(s, dst)
    THEN R(s, "RuntimeError")
    ELSE R([s EXCEPT !.edges = @ \ {<<src, dst>>}], "ok")

(* cmds.delete *)
cmdsDelete(s, n) ==
    IF ~exists(s, n) \/ isLocked(s, n)
    THEN R(s, "RuntimeError")
    ELSE R([s EXCEPT !.alive = @ \ {n},
                     !.dead = @ \cup {n},
                     !.nlock = @ \ {n},
                     !.attrs[n] = {},
                     !.plock = {k \in @ : k[1] # n},
                     !.val[n] = [a \in StringAttrs |-> ""],
                     !.name[n] = 0,
                     !.edges = {e \in @ : e[1][1] # n /\ e[2][1] # n}], "ok")

(* cmds.rename *)
cmdsRename(s, n, newName) ==
    IF ~exists(s, n) \/ isLocked(s, n)
    THEN R(s, "RuntimeError")
    ELSE R([s EXCEPT !.name[n] = newName], "ok")

(* MDGModifier.doIt: the queued operations in order, stopping at the first *)
(* one the host refuses                                                    *)
applyOp(s, op) ==
    IF op[1] = "connect" THEN dgConnect(s, op[2], op[3])
    ELSE dgDisconnect(s, op[2], op[3])

RECURSIVE doIt(_, _)
doIt(s, q) ==
    IF q = <<>> THEN R(s, "ok")
    ELSE LET r == applyOp(s, Head(q))
         IN IF IsErr(r) THEN r ELSE doIt(r.s, Tail(q))

(* ------------------------------ nodes.py ------------------------------- *)
(* nodes.lockNode *)
lockNode(s, n, state) ==
    IF isLocked(s, n) # state THEN setNodeLockState(s, n, state) ELSE s

(* nodes.addAttribute(node, longName, shortName, attrType, isArray, apply=True) *)
(* the kind of the attribute is fixed by its name in this model            *)
(* an addAttribute that leaves the refusal to the host *)
nodesAddAttribute_noCheck(s, n, a) ==
    IF a \in UnknownTypeAttrs THEN R(s, "None") ELSE dgAddAttribute(s, n, a)

(* with an attrType that no branch of the chain handles, attr and aobj stay *)
(* None: nothing is added and None is returned                             *)
nodesAddAttribute(s, n, a) ==
    IF hasAttribute(s, n, a) THEN R(s, "ValueError")
    ELSE IF a \in UnknownTypeAttrs THEN R(s, "None")
    ELSE dgAddAttribute(s, n, a)

(* nodes.iterConnections: pairs <<plug of the node, plug at the other end>> *)
RECURSIVE pairUp(_, _)
pairUp(pl, others) ==
    IF others = <<>> THEN <<>>
    ELSE <<(<<pl, Head(others)>>)>> \o pairUp(pl, Tail(others))

RECURSIVE iterConnectionsOver(_, _, _, _)
iterConnectionsOver(s, pls, src, dst) ==
    IF pls = <<>> THEN <<>>
    ELSE LET pl == Head(pls)
             a == IF src /\ isSource(s, pl) THEN pairUp(pl, destinations(s, pl)) ELSE <<>>
             b == IF dst /\ isDestination(s, pl) THEN <<(<<pl, source(s, pl)>>)>> ELSE <<>>
         IN a \o b \o iterConnectionsOver(s, Tail(pls), src, dst)

iterConnections(s, n, src, dst) ==
    iterConnectionsOver(s, getConnections(s, n), src, dst)

(* nodes.unlockConnectedAttributes(node): every plug of the node that       *)
(* iterConnections(node, source=True, destination=True) yields is unlocked  *)
RECURSIVE unlockConnectedLoop(_, _)
unlockConnectedLoop(s, pairs) ==
    IF pairs = <<>> THEN R(s, "None")
    ELSE unlockConnectedLoop(IF plugIsLocked(s, Head(pairs)[1])
                             THEN setIsLocked(s, Head(pairs)[1], FALSE) ELSE s,
                             Tail(pairs))

unlockConnectedAttributes(s, n) ==
    unlockConnectedLoop(s, iterConnections(s, n, TRUE, TRUE))

(* nodes.setLockStateOnAttributes(node, attributes, state): findPlug raises *)
(* RuntimeError at the first name the node has no attribute of             *)
RECURSIVE setLockStateOnAttributes(_, _, _, _)
setLockStateOnAttributes(s, n, attributes, state) ==
    IF attributes = <<>> THEN R(s, "True")
    ELSE IF ~hasAttribute(s, n, Head(attributes)) THEN R(s, "RuntimeError")
    ELSE setLockStateOnAttributes(
             IF plugIsLocked(s, Plug(n, Head(attributes))) # state
             THEN setIsLocked(s, Plug(n, Head(attributes)), state) ELSE s,
             n, Tail(attributes), state)

(* ------------------------------ plugs.py ------------------------------- *)
(* plugs.setLockState(plug, state) *)
setLockState(s, p, state) ==
    IF plugIsLocked(s, p) # state THEN R(setIsLocked(s, p, state), "True")
    ELSE R(s, "False")

(* the tail of connectPlugs: _mod.connect, and _mod.doIt() when the         *)
(* modifier is the function's own                                          *)
connectPlugsTail(s, m, src, dst, hasMod) ==
    LET m2 == Append(m, <<"connect", src, dst>>)
    IN IF hasMod THEN [R(s, "ok") EXCEPT !.q = m2]
       ELSE doIt(s, m2)

(* plugs.connectPlugs(source, destination, mod, force); q is the queue of   *)
(* the caller's modifier, used when hasMod                                 *)
connectPlugs(s, q, src, dst, hasMod, force) ==
    LET m == IF hasMod THEN q ELSE <<>>
    IN IF isDestination(s, dst)
       THEN IF force
            THEN Then(doIt(s, Append(m, <<"disconnect", source(s, dst), dst>>)), LAMBDA r :
                 connectPlugsTail(r.s, <<>>, src, dst, hasMod))
            ELSE [R(s, "ValueError") EXCEPT !.q = m]
       ELSE connectPlugsTail(s, m, src, dst, hasMod)

(* `if plug.isLocked: plug.isLocked = False` *)
unlock(s, p) == IF plugIsLocked(s, p) THEN setIsLocked(s, p, FALSE) ELSE s

(* plugs.disconnectPlug: the unlocking of the destinations of the plug *)
RECURSIVE unlockAll(_, _)
unlockAll(s, ps) ==
    IF ps = <<>> THEN s
    ELSE unlockAll(unlock(s, Head(ps)), Tail(ps))

RECURSIVE disconnectOps(_, _)
disconnectOps(p, ds) ==
    IF ds = <<>> THEN <<>>
    ELSE <<(<<"disconnect", p, Head(ds)>>)>> \o disconnectOps(p, Tail(ds))

(* plugs.disconnectPlug(plug, source, destination) *)
disconnectPlug(s, plug, src, dst) ==
    LET s1 == unlock(s, plug)
        up == src /\ isDestination(s, plug)
        s2 == IF up THEN unlock(s1, source(s, plug)) ELSE s1
        m1 == IF up THEN <<(<<"disconnect", source(s, plug), plug>>)>> ELSE <<>>
        ds == IF dst /\ isSource(s, plug) THEN destinations(s, plug) ELSE <<>>
    IN Then(doIt(unlockAll(s2, ds), m1 \o disconnectOps(plug, ds)), LAMBDA r :
       R(r.s, "True"))

(* plugs.setLockedContext, entering: current = plug.isLocked; unlock *)
setLockedContextEnter(s, plug) == unlock(s, plug)

(* plugs.setLockedContext, leaving: the statement after the yield runs only *)
(* when the body did not raise (the generator has no try/finally)          *)
setLockedContext(plug, current, r) ==
    IF IsErr(r) THEN [r EXCEPT !.ctx = TRUE]
    ELSE [r EXCEPT !.s = setIsLocked(r.s, plug, current)]

(* plugs.setPlugValue on a string attribute: MPlug.setString *)
setString(s, p, value) ==
    IF value = WrongType THEN R(s, "TypeError")
    ELSE IF ~plugExists(s, p) \/ plugIsLocked(s, p) THEN R(s, "RuntimeError")
    ELSE R([s EXCEPT !.val[p[1]][p[2]] = value], "ok")

(* MDGModifier.renameAttribute + doIt: the attribute keeps its lock and its *)
(* connections under the new name, whatever the names are.  The scene      *)
(* holds a string value only under the names of StringAttrs, so the value  *)
(* follows the attribute when both names are of that set                   *)
renamePlug(p, n, a, b) == IF p[1] = n /\ p[2] = a THEN <<n, b, p[3]>> ELSE p

dgRenameAttribute(s, n, a, b) ==
    IF ~hasAttribute(s, n, a) \/ isLocked(s, n) \/ <<n, a>> \in s.plock
       \/ b \in s.attrs[n]
    THEN R(s, "RuntimeError")
    ELSE R([s EXCEPT !.attrs[n] = (@ \ {a}) \cup {b},
                     !.val[n] = [x \in StringAttrs |->
                                    IF x = b THEN (IF a \in StringAttrs THEN s.val[n][a] ELSE "")
                                    ELSE IF x = a THEN "" ELSE @[x]],
                     !.edges = {<<renamePlug(e[1], n, a, b), renamePlug(e[2], n, a, b)>> : e \in @}],
           "ok")

(* --------------------------- meta/base.py ------------------------------ *)
None == "<None>"
PlugName == "<node.attribute>"
StaleOutcomes == {"F", "T", "raise"}

(* MetaBase.mobject *)
mobject(s, n) == IF ~exists(s, n) THEN R(s, "ValueError") ELSE R(s, "ok")

(* lockMetaManager, up to the call of the wrapped function.  On a node that *)
(* no longer exists the read of MFnDependencyNode.isLocked is undefined: u  *)
(* is what it does (answers False, answers True, raises)                   *)
lockMetaManagerEnter(s, n, u) ==
    IF ~exists(s, n)
    THEN IF u = "raise" THEN R(s, "RuntimeError")
         ELSE IF u = "T" THEN mobject(s, n)
         ELSE R(s, "ok")
    ELSE IF isLocked(s, n) THEN R(lockNode(s, n, FALSE), "ok")
    ELSE R(s, "ok")

(* lockMetaManager: setLocked as the wrapper computed it on scene s *)
setLockedFlag(s, n) == exists(s, n) /\ isLocked(s, n)

(* lockMetaManager, the finally clause *)
lockMetaManagerExit(s, n, setLocked) ==
    IF exists(s, n) /\ setLocked THEN lockNode(s, n, TRUE) ELSE s

(* a decorator that relocks after `return func(...)` without try/finally *)
lockMetaManager_relockOnReturnOnly(s, n, e, r) ==
    [r EXCEPT !.s = IF IsErr(r) THEN r.s
                    ELSE lockMetaManagerExit(r.s, n, setLockedFlag(s, n)),
              !.body = isLocked(e.s, n) \/ isLocked(r.s, n)]

(* lockMetaManager around a body that ran from scene e.s and ended as r *)
lockMetaManager(s, n, e, r) ==
    [r EXCEPT !.s = lockMetaManagerExit(r.s, n, setLockedFlag(s, n)),
              !.body = isLocked(e.s, n) \/ isLocked(r.s, n)]

(* MetaBase.removeAttribute *)
removeAttributeBody(s, n, name) ==
    IF ~exists(s, n) THEN R(s, "False")
    ELSE IF hasAttribute(s, n, name)
    THEN Then(deleteAttr(unlock(s, Plug(n, name)), n, name), LAMBDA r : R(r.s, "True"))
    ELSE R(s, "False")

removeAttribute(s, n, name, u) ==
    Then(lockMetaManagerEnter(s, n, u), LAMBDA e :
    lockMetaManager(s, n, e, removeAttributeBody(e.s, n, name)))

(* MetaBase.deleteAttribute *)
deleteAttributeBody(s, n, attr) ==
    IF hasAttribute(s, n, attr)
    THEN Then(deleteAttr(setIsLocked(s, Plug(n, attr), FALSE), n, attr), LAMBDA r :
         R(r.s, "True"))
    ELSE R(s, "False")

deleteAttribute(s, n, attr, u) ==
    Then(lockMetaManagerEnter(s, n, u), LAMBDA e :
    lockMetaManager(s, n, e, deleteAttributeBody(e.s, n, attr)))

(* MetaBase.purgeMetaAttributes: for each of metaAttributes(),              *)
(* plugs.serializePlug(self.attribute(name)), an AttributeError when the   *)
(* attribute is missing and attribute() returned None, then                *)
(* self.deleteAttribute(name)                                              *)
RECURSIVE purgeMetaAttributesLoop(_, _, _, _)
purgeMetaAttributesLoop(s, n, names, u) ==
    IF names = <<>> THEN R(s, "list")
    ELSE IF ~hasAttribute(s, n, Head(names)) THEN R(s, "AttributeError")
    ELSE Then(deleteAttribute(s, n, Head(names), u), LAMBDA r :
         purgeMetaAttributesLoop(r.s, n, Tail(names), u))

purgeMetaAttributes(s, n, u) ==
    purgeMetaAttributesLoop(s, n, <<MCLASS_ATTR_NAME, MVERSION_ATTR_NAME,
                                    MPARENT_ATTR_NAME, MCHILDREN_ATTR_NAME>>, u)

(* MetaBase.rename *)
rename(s, n, newName, u) ==
    Then(lockMetaManagerEnter(s, n, u), LAMBDA e :
    lockMetaManager(s, n, e, cmdsRename(e.s, n, newName)))

(* MetaBase.lock *)
lock(s, n, state) ==
    IF ~exists(s, n) THEN R(s, "RuntimeError")
    ELSE R(setNodeLockState(s, n, state), "ok")

(* MetaBase.addAttribute(name, value, Type, isArray, lock); value is None,  *)
(* a str, an int or the MObject of a node                                  *)
addAttributeCatch(r) == IF r.out = "RuntimeError" THEN R(r.s, "ValueError") ELSE r

(* an MObject as a value *)
MObject(n) == "<MObject " \o ToString(n) \o ">"
isMObject(value) == \E n \in Nodes : value = MObject(n)
nodeOf(value) == CHOOSE n \in Nodes : value = MObject(n)

RECURSIVE connectTo(_, _, _, _, _, _)

(* `if value is not None and newPlug is not None:` and its two branches:    *)
(* self.connectTo(name, value) for an MObject, plugs.setPlugValue for the   *)
(* rest, which writes a string attribute, returns from its loop over the    *)
(* (no) elements of a new array attribute, and raises ValueError on a       *)
(* message attribute                                                        *)
addAttributeValue(s, n, name, value) ==
    IF value = None THEN R(s, "ok")
    ELSE IF isMObject(value) THEN connectTo(s, n, name, nodeOf(value), "metaNode", "F")
    ELSE IF name \in StringAttrs THEN setString(s, Plug(n, name), value)
    ELSE IF name \notin ArrayAttrs THEN R(s, "ValueError")
    ELSE R(s, "ok")

(* when nodes.addAttribute returned None, newPlug stays None and            *)
(* `newPlug.isLocked = lock` is an AttributeError                           *)
addAttributeBody(s, n, name, value, lck) ==
    IF hasAttribute(s, n, name) THEN R(s, "plug")
    ELSE Then(addAttributeCatch(nodesAddAttribute(s, n, name)), LAMBDA r1 :
         IF r1.out = "None" THEN R(r1.s, "AttributeError")
         ELSE Then(addAttributeValue(r1.s, n, name, value), LAMBDA r2 :
              R(setIsLocked(r2.s, Plug(n, name), lck), "plug")))

addAttribute(s, n, name, value, lck, u) ==
    Then(lockMetaManagerEnter(s, n, u), LAMBDA e :
    lockMetaManager(s, n, e, addAttributeBody(e.s, n, name, value, lck)))

(* MetaBase.setAttribute(attr, value) on a string attribute *)
setAttribute(s, n, attr, value) ==
    IF hasAttribute(s, n, attr)
    THEN LET plug == Plug(n, attr)
             current == plugIsLocked(s, plug)
         IN setLockedContext(plug, current,
                             setString(setLockedContextEnter(s, plug), plug, value))
    ELSE R(s, "None")

(* MetaBase.renameAttribute *)
(* a renameAttribute that does not put the slot's lock flag back *)
renameAttributeBody_leavesUnlocked(s, n, name, newName) ==
    IF ~hasAttribute(s, n, name) THEN R(s, "AttributeError")
    ELSE Then(dgRenameAttribute(setLockedContextEnter(s, Plug(n, name)), n, name, newName),
              LAMBDA x : [x EXCEPT !.out = "True"])

renameAttributeBody(s, n, name, newName) ==
    IF ~hasAttribute(s, n, name) THEN R(s, "AttributeError")
    ELSE Then(setLockedContext(Plug(n, newName), plugIsLocked(s, Plug(n, name)),
                  dgRenameAttribute(setLockedContextEnter(s, Plug(n, name)), n, name, newName)),
              LAMBDA x : [x EXCEPT !.out = "True"])

renameAttribute(s, n, name, newName, u) ==
    Then(lockMetaManagerEnter(s, n, u), LAMBDA e :
    lockMetaManager(s, n, e, renameAttributeBody(e.s, n, name, newName)))

(* MetaBase.disconnectFromNode(node): the first pair of                    *)
(* nodes.iterConnections(node, False, True) that passes the filter         *)
(* `source.node() != metaObj: continue`; the first plug of a pair is the   *)
(* plug of `node`, the second the plug upstream of it                      *)
disconnectFromNodeMatches(s, n, node) ==
    SelectSeq(iterConnections(s, node, FALSE, TRUE), LAMBDA c : PlugNode(c[1]) = n)

(* the body of the loop for the pair that passed the filter *)
disconnectFromNodePair(s, n, src, dst, u) ==
    Then(disconnectPlug(s, src, TRUE, TRUE), LAMBDA r1 :
    Then(deleteAttr(unlock(r1.s, src), PlugNode(dst), PlugAttr(dst)), LAMBDA r3 :
    Then(removeAttribute(r3.s, n, PlugName, u), LAMBDA r4 :
    R(r4.s, "True"))))

disconnectFromNode(s, n, node, u) ==
    IF IsErr(mobject(s, n)) THEN mobject(s, n)
    ELSE IF disconnectFromNodeMatches(s, n, node) = <<>> THEN R(s, "False")
    ELSE disconnectFromNodePair(s, n, disconnectFromNodeMatches(s, n, node)[1][1],
                                disconnectFromNodeMatches(s, n, node)[1][2], u)

(* MetaBase.connectTo / connectToByPlug: the destination plug on `node`,    *)
(* created when missing, disconnected when present                         *)
destinationPlugFor(s, node, nodeAttributeName) ==
    IF ~hasAttribute(s, node, nodeAttributeName)
    THEN nodesAddAttribute(s, node, nodeAttributeName)
    ELSE disconnectPlug(s, Plug(node, nodeAttributeName), TRUE, TRUE)

(* MetaBase.connectTo: the with block *)
connectToBlock(s, sourcePlug, destinationPlug) ==
    Then(connectPlugs(unlock(s, destinationPlug), <<>>, sourcePlug, destinationPlug,
                      FALSE, TRUE), LAMBDA r :
    R(setIsLocked(r.s, destinationPlug, TRUE), "plug"))

(* MetaBase.connectTo(attributeName, node, nodeAttributeName) *)
connectTo(s, n, attributeName, node, nodeAttributeName, u) ==
    Then(disconnectFromNode(s, n, node, u), LAMBDA r0 :
    Then(destinationPlugFor(r0.s, node, nodeAttributeName), LAMBDA r1 :
    Then(IF hasAttribute(r1.s, n, attributeName) THEN R(r1.s, "plug")
         ELSE addAttribute(r1.s, n, attributeName, None, TRUE, u), LAMBDA r2 :
    setLockedContext(Plug(n, attributeName), plugIsLocked(r2.s, Plug(n, attributeName)),
        connectToBlock(setLockedContextEnter(r2.s, Plug(n, attributeName)),
                       Plug(n, attributeName), Plug(node, nodeAttributeName))))))

(* `if wasLocked: plug.isLocked = True` *)
relock(s, p, wasLocked) == IF wasLocked THEN setIsLocked(s, p, TRUE) ELSE s

(* MetaBase.connectToByPlug: the with block *)
connectToByPlugBlock(s, sourcePlug, destinationPlug) ==
    LET destIsLock == plugIsLocked(s, destinationPlug)
        sourceIsLock == plugIsLocked(unlock(s, destinationPlug), sourcePlug)
    IN Then(connectPlugs(unlock(unlock(s, destinationPlug), sourcePlug), <<>>,
                         sourcePlug, destinationPlug, FALSE, TRUE), LAMBDA r :
       R(relock(relock(r.s, sourcePlug, sourceIsLock), destinationPlug, destIsLock), "plug"))

(* MetaBase.connectToByPlug(sourcePlug, node, nodeAttributeName) *)
connectToByPlug(s, sourcePlug, node, nodeAttributeName) ==
    Then(destinationPlugFor(s, node, nodeAttributeName), LAMBDA r1 :
    setLockedContext(sourcePlug, plugIsLocked(r1.s, sourcePlug),
        connectToByPlugBlock(setLockedContextEnter(r1.s, sourcePlug),
                             sourcePlug, Plug(node, nodeAttributeName))))

(* MetaBase.disconnectPlugFromNode(source, node) *)
disconnectPlugFromNodeBody(s, src, node) ==
    LET hits == SelectSeq(destinations(s, src), LAMBDA i : PlugNode(i) = node)
    IN IF hits = <<>> THEN R(s, "False")
       ELSE Then(dgDisconnect(s, src, hits[1]), LAMBDA r1 :
            Then(deleteAttr(r1.s, PlugNode(hits[1]), PlugAttr(hits[1])), LAMBDA r2 :
            R(r2.s, "True")))

disconnectPlugFromNode(s, n, src, node, u) ==
    Then(lockMetaManagerEnter(s, n, u), LAMBDA e :
    lockMetaManager(s, n, e, disconnectPlugFromNodeBody(e.s, src, node)))

(* MetaBase.delete: the loop over self.iterConnections(True, True); both    *)
(* branches of the loop body call disconnectFromNode on the node at the    *)
(* other end of the pair                                                   *)
otherEnd(n, pair) ==
    IF PlugNode(pair[1]) = n THEN PlugNode(pair[2]) ELSE PlugNode(pair[1])

RECURSIVE deletePairs(_, _, _, _)
deletePairs(s, n, pairs, u) ==
    IF pairs = <<>> THEN R(s, "ok")
    ELSE Then(disconnectFromNode(s, n, otherEnd(n, Head(pairs)), u), LAMBDA r :
         deletePairs(r.s, n, Tail(pairs), u))

RECURSIVE deleteLoop(_, _, _, _)
deleteLoop(s, n, pls, u) ==
    IF pls = <<>> THEN R(s, "ok")
    ELSE Then(deletePairs(s, n, iterConnectionsOver(s, <<Head(pls)>>, TRUE, TRUE), u),
              LAMBDA r : deleteLoop(r.s, n, Tail(pls), u))

deleteBody(s, n, u) ==
    IF IsErr(mobject(s, n)) THEN mobject(s, n)
    ELSE Then(deleteLoop(s, n, getConnections(s, n), u), LAMBDA r : cmdsDelete(r.s, n))

(* MetaBase.delete *)
delete(s, n, u) ==
    Then(lockMetaManagerEnter(s, n, u), LAMBDA e :
    lockMetaManager(s, n, e, deleteBody(e.s, n, u)))

(* ------------------- MetaRegistry and MetaFactory ---------------------- *)
(* a python class object: its __name__, which definition of that name it   *)
(* is (a module that is imported again defines its classes again), and     *)
(* whether it is a subclass of MetaBase                                    *)
Class(name, id, meta) == [name |-> name, id |-> id, meta |-> meta]
MetaBaseClass == Class("MetaBase", 0, TRUE)
MetaRig == Class("MetaRig", 0, TRUE)
MetaRigAgain == Class("MetaRig", 1, TRUE)
MetaCamera == Class("MetaCamera", 0, TRUE)
MetaClasses == {MetaBaseClass, MetaRig, MetaRigAgain, MetaCamera}
(* a class that does not derive from MetaBase *)
OtherClass == Class("Plugin", 0, FALSE)
(* os.environ.get("ZOO_META_PATHS"): not set, set to paths that hold no     *)
(* meta class ('' or a path that does not exist), or set to the paths of    *)
(* the modules that define MetaBase and MetaRig                             *)
EnvUnset == "unset"
EnvEmpty == "empty"
EnvFound == "found"
Envs == {EnvUnset, EnvEmpty, EnvFound}
(* what the scan of ZOO_META_PATHS finds *)
EnvClasses(env) == IF env = EnvFound THEN <<MetaBaseClass, MetaRig>> ELSE <<>>

(* MetaRegistry.registerMetaClass: `a or b and c` is `a or (b and c)`, and  *)
(* isinstance(classObj, MetaBase) is False of a class object               *)
registerMetaClass(s, classObj) ==
    IF classObj.meta \/ (FALSE /\ classObj.name \notin DOMAIN s.types)
    THEN [s EXCEPT !.types = [x \in (DOMAIN @) \cup {classObj.name} |->
                                 IF x = classObj.name THEN classObj ELSE @[x]]]
    ELSE s

RECURSIVE registerMetaClasses(_, _)
registerMetaClasses(s, cs) ==
    IF cs = <<>> THEN s
    ELSE registerMetaClasses(registerMetaClass(s, Head(cs)), Tail(cs))

(* MetaRegistry.registryByEnv(env): ValueError when the variable is not set *)
registryByEnv(s) ==
    IF s.env = EnvUnset THEN R(s, "ValueError")
    ELSE R(registerMetaClasses(s, EnvClasses(s.env)), "ok")

(* MetaRegistry.reload *)
reload(s) == registryByEnv(s)

(* MetaRegistry(): the singleton runs __init__ the first time, which calls  *)
(* reload and catches its ValueError                                        *)
MetaRegistry(s) ==
    IF s.made THEN s
    ELSE [reload(s).s EXCEPT !.made = TRUE]

(* MetaBase.classNameFromPlug: the tag, or the RuntimeError it returns *)
classNameFromPlug(s, node) ==
    IF hasAttribute(s, node, MCLASS_ATTR_NAME) THEN s.val[node][MCLASS_ATTR_NAME]
    ELSE "<RuntimeError>"

(* MetaFactory.__call__: what it does to the registry (node 0 is None) *)
MetaFactoryRegistry(s, cls, node) ==
    LET s1 == IF cls.name \notin DOMAIN s.types THEN registerMetaClass(s, cls) ELSE s
    IN IF node = 0 THEN s1
       ELSE IF classNameFromPlug(s1, node) = cls.name THEN s1
       ELSE MetaRegistry(s1)

(* MetaFactory.__call__: the class it instantiates *)
MetaFactoryClass(s, cls, node) ==
    LET s2 == MetaFactoryRegistry(s, cls, node)
        classType == classNameFromPlug(s2, node)
    IN IF node = 0 THEN cls
       ELSE IF classType = cls.name THEN cls
       ELSE IF classType \in DOMAIN s2.types THEN s2.types[classType]
       ELSE cls

(* an _initMeta that writes the tag of the class being built over the tag   *)
(* the node already carries                                                *)
initMeta_retags(s, n, className, u) ==
    Then(addAttribute(s, n, MCLASS_ATTR_NAME, className, TRUE, u), LAMBDA r1 :
    Then(setAttribute(r1.s, n, MCLASS_ATTR_NAME, className), LAMBDA r1b :
    Then(addAttribute(r1b.s, n, MVERSION_ATTR_NAME, "1.0.0", TRUE, u), LAMBDA r2 :
    Then(addAttribute(r2.s, n, MPARENT_ATTR_NAME, None, FALSE, u), LAMBDA r3 :
    addAttribute(r3.s, n, MCHILDREN_ATTR_NAME, None, FALSE, u)))))

(* MetaBase._initMeta: addAttribute for each of metaAttributes() *)
initMeta(s, n, className, u) ==
    Then(addAttribute(s, n, MCLASS_ATTR_NAME, className, TRUE, u), LAMBDA r1 :
    Then(addAttribute(r1.s, n, MVERSION_ATTR_NAME, "1.0.0", TRUE, u), LAMBDA r2 :
    Then(addAttribute(r2.s, n, MPARENT_ATTR_NAME, None, FALSE, u), LAMBDA r3 :
    addAttribute(r3.s, n, MCHILDREN_ATTR_NAME, None, FALSE, u))))

(* MetaBase.__init__(node, name, initDefaults=True, lock) over a node *)
MetaBaseInit(s, n, className, lck, u) ==
    Then(initMeta(s, n, className, u), LAMBDA r :
    IF lck /\ ~isLocked(r.s, n) THEN lock(r.s, n, TRUE) ELSE R(r.s, "ok"))

(* nodes.createDGNode *)
createDGNode(s, n) == [s EXCEPT !.alive = @ \cup {n}]

(* cls(node, lock=lck): MetaFactory.__call__ then __init__; node 0 is None  *)
(* and fresh is the node createDGNode makes then                           *)
MetaFactoryCall(s, cls, node, fresh, lck, u) ==
    MetaBaseInit(IF node = 0 THEN createDGNode(MetaFactoryRegistry(s, cls, node), fresh)
                 ELSE MetaFactoryRegistry(s, cls, node),
                 IF node = 0 THEN fresh ELSE node,
                 MetaFactoryClass(s, cls, node).name, lck, u)

(* MetaBase(node) as the traversals and removeParent build it *)
wrap(s, node) == MetaFactoryCall(s, MetaBaseClass, node, 0, FALSE, "F")

(* ----------------------- parents and children -------------------------- *)
(* MetaBase.addParent: plugs.nextAvailableDestElementPlug is not defined   *)
(* in zoo.libs.maya.api.plugs, so the lookup raises AttributeError before  *)
(* anything is connected                                                   *)
addParent(s, n, parent) ==
    IF ~hasAttribute(s, n, MPARENT_ATTR_NAME) THEN R(s, "RuntimeError")
    ELSE R(s, "AttributeError")

(* MetaBase.removeParent: the loop in the with block; it queues the         *)
(* disconnects on mod and builds MetaBase(source node) for each element     *)
connectedElements(s, n) ==
    SortPlugs({Elem(n, MPARENT_ATTR_NAME, i) : i \in Indices}
              \cap {p \in MsgPlugs : isDestination(s, p)})

RECURSIVE removeParentLoop(_, _, _, _)
removeParentLoop(s, q, elems, parent) ==
    IF elems = <<>> THEN [R(s, "ok") EXCEPT !.q = q]
    ELSE LET el == Head(elems)
             mb == PlugNode(source(s, el))
         IN Then(wrap(s, mb), LAMBDA w :
            IF parent # 0 /\ ~exists(w.s, parent) THEN R(w.s, "ValueError")
            ELSE removeParentLoop(w.s,
                     IF parent = 0 \/ mb = parent
                     THEN Append(q, <<"disconnect", source(s, el), el>>) ELSE q,
                     Tail(elems), parent))

(* MetaBase.removeParent(parent), parent 0 is None, up to mod.doIt(): the   *)
(* with block, which leaves the disconnects queued on mod                  *)
removeParentQueued(s, n, parent) ==
    IF ~hasAttribute(s, n, MPARENT_ATTR_NAME) THEN R(s, "RuntimeError")
    ELSE LET parentPlug == Plug(n, MPARENT_ATTR_NAME)
         IN setLockedContext(parentPlug, plugIsLocked(s, parentPlug),
                removeParentLoop(setLockedContextEnter(s, parentPlug), <<>>,
                                 connectedElements(s, n), parent))

(* MetaBase.removeParent(parent); parent 0 is None.  mod.doIt() comes after *)
(* the with block                                                          *)
removeParent(s, n, parent) ==
    Then(removeParentQueued(s, n, parent), LAMBDA x :
    Then(doIt(x.s, x.q), LAMBDA r :
    R(r.s, "True")))

(* MetaBase.removeAllParents up to mod.doIt(): the with block *)
removeAllParentsQueued(s, n) ==
    IF ~hasAttribute(s, n, MPARENT_ATTR_NAME) THEN R(s, "RuntimeError")
    ELSE LET parentPlug == Plug(n, MPARENT_ATTR_NAME)
             current == plugIsLocked(s, parentPlug)
             els == connectedElements(s, n)
             q == [i \in 1..Len(els) |-> <<"disconnect", source(s, els[i]), els[i]>>]
         IN [R(setIsLocked(setLockedContextEnter(s, parentPlug), parentPlug, current), "ok")
                EXCEPT !.q = q]

(* MetaBase.removeAllParents *)
removeAllParents(s, n) ==
    Then(removeAllParentsQueued(s, n), LAMBDA x :
    Then(doIt(x.s, x.q), LAMBDA r :
    R(r.s, "True")))

(* MetaBase.metaParents(): the nodes of the MetaBase instances it yields,  *)
(* one per connected element of mMetaParent, in element order              *)
metaParentsNodes(s, n) ==
    LET els == connectedElements(s, n)
    IN [i \in 1..Len(els) |-> PlugNode(source(s, els[i]))]

(* MetaBase.addChild *)
addChild(s, n, child) ==
    Then(removeParent(s, child, 0), LAMBDA r : addParent(r.s, child, n))

(* --------------------------- nodes.delete ------------------------------ *)
(* nodes.unlockedAndDisconnectConnectedAttributes: disconnectPlug on every  *)
(* plug of the node that iterConnections(node, source=False,                *)
(* destination=True) yields, that is on every plug that is a destination    *)
(* when the loop reaches it                                                 *)
RECURSIVE unlockedAndDisconnectLoop(_, _)
unlockedAndDisconnectLoop(s, pls) ==
    IF pls = <<>> THEN R(s, "ok")
    ELSE IF isDestination(s, Head(pls))
    THEN Then(disconnectPlug(s, Head(pls), TRUE, TRUE), LAMBDA r :
         unlockedAndDisconnectLoop(r.s, Tail(pls)))
    ELSE unlockedAndDisconnectLoop(s, Tail(pls))

unlockedAndDisconnectConnectedAttributes(s, n) ==
    unlockedAndDisconnectLoop(s, getConnections(s, n))

(* MDagModifier.deleteNode + doIt *)
deleteNode(s, n) == cmdsDelete(s, n)

(* nodes.delete up to the deletion command: lockNode(node, False) and       *)
(* unlockedAndDisconnectConnectedAttributes(node)                           *)
nodesDeletePrepare(s, n) ==
    unlockedAndDisconnectConnectedAttributes(lockNode(s, n, FALSE), n)

(* nodes.delete(node) *)
nodesDelete(s, n) ==
    IF ~exists(s, n) THEN R(s, "None")
    ELSE Then(nodesDeletePrepare(s, n), LAMBDA r :
         Then(deleteNode(r.s, n), LAMBDA d : R(d.s, "None")))

(* ----------------------------- traversal ------------------------------- *)
(* plugs.iterDependencyGraph(plug, alternativeName, depthLimit), downwards: *)
(* the plugs it yields, in order.  iterDependencyLoop is its for loop over  *)
(* the rest of `connections`                                               *)
RECURSIVE iterDependencyLoop(_, _, _, _)
iterDependencyGraph(s, plug, plugSearchname, depthLimit) ==
    iterDependencyLoop(s, destinations(s, plug), plugSearchname, depthLimit)

(* a loop that tests `depthLimit < 0`, one level too deep *)
iterDependencyLoop_oneLevelMore(s, connections, plugSearchname, depthLimit) ==
    IF connections = <<>> THEN <<>>
    ELSE IF ~hasAttribute(s, PlugNode(Head(connections)), plugSearchname)
    THEN iterDependencyLoop(s, Tail(connections), plugSearchname, depthLimit)
    ELSE IF depthLimit < 0 THEN <<>>
    ELSE <<Plug(PlugNode(Head(connections)), plugSearchname)>>
         \o (IF isConnected(s, Plug(PlugNode(Head(connections)), plugSearchname))
             THEN iterDependencyLoop(s, destinations(s, Plug(PlugNode(Head(connections)),
                                                             plugSearchname)),
                                     plugSearchname, depthLimit - 1)
             ELSE <<>>)
         \o iterDependencyLoop(s, Tail(connections), plugSearchname, depthLimit)

(* a loop that returns, instead of continuing, at a node without the        *)
(* attribute                                                               *)
iterDependencyLoop_returnsAtMissing(s, connections, plugSearchname, depthLimit) ==
    IF connections = <<>> THEN <<>>
    ELSE IF ~hasAttribute(s, PlugNode(Head(connections)), plugSearchname)
    THEN <<>>
    ELSE IF depthLimit < 1 THEN <<>>
    ELSE <<Plug(PlugNode(Head(connections)), plugSearchname)>>
         \o (IF isConnected(s, Plug(PlugNode(Head(connections)), plugSearchname))
             THEN iterDependencyLoop(s, destinations(s, Plug(PlugNode(Head(connections)),
                                                             plugSearchname)),
                                     plugSearchname, depthLimit - 1)
             ELSE <<>>)
         \o iterDependencyLoop(s, Tail(connections), plugSearchname, depthLimit)

iterDependencyLoop(s, connections, plugSearchname, depthLimit) ==
    IF connections = <<>> THEN <<>>
    ELSE LET node == PlugNode(Head(connections))
             nodePlug == Plug(node, plugSearchname)
         IN IF ~hasAttribute(s, node, plugSearchname)
            THEN iterDependencyLoop(s, Tail(connections), plugSearchname, depthLimit)
            ELSE IF depthLimit < 1 THEN <<>>
            ELSE <<nodePlug>>
                 \o (IF isConnected(s, nodePlug)
                     THEN iterDependencyLoop(s, destinations(s, nodePlug),
                                             plugSearchname, depthLimit - 1)
                     ELSE <<>>)
                 \o iterDependencyLoop(s, Tail(connections), plugSearchname, depthLimit)

(* MetaBase.iterMetaChildren(depthLimit): the nodes of the MetaBase         *)
(* instances it yields, in order                                           *)
iterMetaChildrenNodes(s, n, depthLimit) ==
    LET ps == iterDependencyGraph(s, Plug(n, MCHILDREN_ATTR_NAME),
                                  MCHILDREN_ATTR_NAME, depthLimit)
    IN [i \in 1..Len(ps) |-> PlugNode(ps[i])]

(* the MetaBase(child.node()) constructions of a traversal, one per yield *)
RECURSIVE wrapAll(_, _)
wrapAll(s, ns) ==
    IF ns = <<>> THEN R(s, "ok")
    ELSE Then(wrap(s, Head(ns)), LAMBDA w : wrapAll(w.s, Tail(ns)))

(* MetaBase.iterMetaChildren(depthLimit), run to its end *)
iterMetaChildren(s, n, depthLimit) ==
    IF ~hasAttribute(s, n, MCHILDREN_ATTR_NAME) THEN R(s, "RuntimeError")
    ELSE wrapAll(s, iterMetaChildrenNodes(s, n, depthLimit))

(* MetaBase.metaParents(), run to its end: MetaBase(source node) for each   *)
(* connected element of mMetaParent                                        *)
metaParents(s, n) ==
    IF ~hasAttribute(s, n, MPARENT_ATTR_NAME) THEN R(s, "RuntimeError")
    ELSE wrapAll(s, metaParentsNodes(s, n))

(* MetaBase.metaParents(recursive=True): the scene it leaves, the nodes of  *)
(* the instances it yields, in order, and how the walk ends.  Each parent   *)
(* is built with MetaBase(source node), yielded, and then walked in a       *)
(* nested generator over the scene the construction left; there is no       *)
(* depth argument, so the nesting is stopped only by the interpreter, which *)
(* raises RuntimeError (maximum recursion depth exceeded) once              *)
(* RecursionLimit generators are nested.  metaParentsLoop is the for loop   *)
(* over the rest of the connected elements                                  *)
WalkResult(s, nodes, out) == [s |-> s, nodes |-> nodes, out |-> out]
ThenWalk(w, F(_)) == IF w.out # "ok" THEN w ELSE F(w)
Yielded(ns, w) == [w EXCEPT !.nodes = ns \o @]

RECURSIVE metaParentsRecursiveNodes(_, _, _)
RECURSIVE metaParentsLoop(_, _, _)
metaParentsLoop(s, els, depth) ==
    IF els = <<>> THEN WalkResult(s, <<>>, "ok")
    ELSE ThenWalk(WalkResult(wrap(s, PlugNode(source(s, Head(els)))).s, <<>>,
                         IF IsErr(wrap(s, PlugNode(source(s, Head(els)))))
                         THEN wrap(s, PlugNode(source(s, Head(els)))).out ELSE "ok"),
         LAMBDA w :
         Yielded(<<PlugNode(source(s, Head(els)))>>,
             ThenWalk(metaParentsRecursiveNodes(w.s, PlugNode(source(s, Head(els))), depth + 1),
             LAMBDA inner :
             Yielded(inner.nodes, metaParentsLoop(inner.s, Tail(els), depth)))))

metaParentsRecursiveNodes(s, n, depth) ==
    IF depth > RecursionLimit THEN WalkResult(s, <<>>, "RuntimeError")
    ELSE IF ~hasAttribute(s, n, MPARENT_ATTR_NAME) THEN WalkResult(s, <<>>, "RuntimeError")
    ELSE metaParentsLoop(s, connectedElements(s, n), depth)

(* MetaBase.metaParents(recursive=True), run to its end *)
metaParentsRecursive(s, n) ==
    R(metaParentsRecursiveNodes(s, n, 1).s, metaParentsRecursiveNodes(s, n, 1).out)

(* isMetaNode(node): what it does to the registry, and its answer *)
isMetaNodeRegistry(s, node) ==
    IF hasAttribute(s, node, MCLASS_ATTR_NAME) /\ DOMAIN s.types = {}
    THEN MetaRegistry(s) ELSE s

isMetaNode(s, node) ==
    /\ hasAttribute(s, node, MCLASS_ATTR_NAME)
    /\ s.val[node][MCLASS_ATTR_NAME] \in DOMAIN isMetaNodeRegistry(s, node).types

(* MetaBase.iterMetaTree(depthLimit), run to its end.  iterMetaTreeLoop is  *)
(* its for loop over the rest of iterConnections(node, False, True), whose  *)
(* pairs end on the plug that feeds the node                               *)
RECURSIVE iterMetaTree(_, _, _)
RECURSIVE iterMetaTreeLoop(_, _, _)
iterMetaTreeLoop(s, pairs, depthLimit) ==
    IF pairs = <<>> THEN R(s, "ok")
    ELSE LET node == PlugNode(Head(pairs)[2])
         IN IF isMetaNode(s, node)
            THEN Then(wrap(isMetaNodeRegistry(s, node), node), LAMBDA w :
                 Then(iterMetaTree(w.s, node, depthLimit - 1), LAMBDA r :
                 iterMetaTreeLoop(r.s, Tail(pairs), depthLimit)))
            ELSE iterMetaTreeLoop(isMetaNodeRegistry(s, node), Tail(pairs), depthLimit)

iterMetaTree(s, n, depthLimit) ==
    IF depthLimit < 1 THEN R(s, "ok")
    ELSE IF ~exists(s, n) THEN R(s, "ValueError")
    ELSE iterMetaTreeLoop(s, iterConnections(s, n, FALSE, TRUE), depthLimit)

(* ------------- nodes.serializeNode / nodes.deserializeNode ------------- *)
(* attrtypes.py *)
kMFnNumericBoolean == 0
kMFnNumericFloat == 4
kMFnUnitAttributeDistance == 9
kMFnkEnumAttribute == 12
kMFnDataString == 13
kMFnDataIntArray == 17
kMFnMessageAttribute == 36

(* python values that the code tells apart by type: a str, a list, a dict.  *)
(* A dict with string keys that the code indexes by key is a record, and a  *)
(* name (of a node or of a plug) is the sequence of its "|" separated       *)
(* segments                                                                 *)
PyStr(str) == [py |-> "str", str |-> str]
PyList(items) == [py |-> "list", items |-> items]
PyDict(items) == [py |-> "dict", items |-> items]
EmptyDict == [k \in {} |-> None]

(* iter(str): the characters of the plugin names of the model *)
Chars(str) ==
    IF str = "mtoa" THEN <<"m", "t", "o", "a">>
    ELSE IF str = "gone" THEN <<"g", "o", "n", "e">>
    ELSE <<>>

(* iter(value) *)
Iter(v) == IF v.py = "str" THEN Chars(v.str) ELSE v.items

(* the attribute types whose MObject has kNumericAttribute, kUnitAttribute *)
NumericTypes == {kMFnNumericBoolean, kMFnNumericFloat}
UnitTypes == {kMFnUnitAttributeDistance}

(* plugs.getPlugMin / getPlugMax: attr.getMin() of a numeric or unit        *)
(* attribute that has the limit, attr.getMin() of an enum attribute; None   *)
(* stands for an attribute without the limit                                *)
getPlugMin(p) ==
    IF p.type \in NumericTypes \cup UnitTypes \cup {kMFnkEnumAttribute} THEN p.min ELSE None
getPlugMax(p) ==
    IF p.type \in NumericTypes \cup UnitTypes \cup {kMFnkEnumAttribute} THEN p.max ELSE None

(* plugs.getSoftMin / getSoftMax: numeric and unit attributes only; None    *)
(* stands for an attribute without the soft limit                           *)
getSoftMin(p) == IF p.type \in NumericTypes \cup UnitTypes THEN p.softMin ELSE None
getSoftMax(p) == IF p.type \in NumericTypes \cup UnitTypes THEN p.softMax ELSE None

(* plugs.hasPlugSoftMax: every branch returns attr.hasSoftMin().  enumApi   *)
(* says whether the host's MFnEnumAttribute answers hasSoftMin (with False) *)
(* or has no such method                                                    *)
hasPlugSoftMax(p, enumApi) ==
    IF p.type \in NumericTypes \cup UnitTypes
    THEN IF p.softMin # None THEN "True" ELSE "False"
    ELSE IF p.type = kMFnkEnumAttribute
    THEN IF enumApi THEN "False" ELSE "AttributeError"
    ELSE "False"

(* plugs.serializePlug *)
serializePlug(p) ==
    IF p.isDynamic
    THEN LET data == [isDynamic |-> TRUE, default |-> p.default,
                      min |-> getPlugMin(p), max |-> getPlugMax(p),
                      softMin |-> getSoftMin(p), softMax |-> getSoftMax(p),
                      value |-> p.value, name |-> p.name,
                      channelBox |-> p.channelBox, keyable |-> p.keyable,
                      locked |-> p.locked, type |-> p.type]
         IN IF p.type = kMFnkEnumAttribute THEN data @@ [enums |-> p.enums] ELSE data
    ELSE IF ~p.isDefaultValue
    THEN LET data == [isDynamic |-> FALSE, channelBox |-> p.channelBox,
                      keyable |-> p.keyable, locked |-> p.locked, type |-> p.type,
                      value |-> p.value, name |-> p.name]
         IN IF p.type = kMFnkEnumAttribute THEN data @@ [enums |-> p.enums] ELSE data
    ELSE EmptyDict

(* nodes.serializeNode: the list of attribute records *)
serializeAttributes(s, n) ==
    SelectSeq([i \in 1..Len(s.plugs[n]) |-> serializePlug(s.plugs[n][i])],
              LAMBDA d : DOMAIN d # {})

(* nodes.serializeNode: the list of (destination plug name, source node     *)
(* name, source plug name)                                                  *)
serializeConnections(s, n) ==
    LET cs == iterConnections(s, n, FALSE, TRUE)
    IN [i \in 1..Len(cs) |-> <<(<<PlugAttr(cs[i][1])>>), s.nodeName[PlugNode(cs[i][2])],
                               (<<PlugAttr(cs[i][2])>>)>>]

(* nodes.serializeNode(node) *)
serializeNode(s, n) ==
    LET d1 == [name |-> s.nodeName[n], type |-> s.nodeType[n]]
        d2 == IF s.plugin[n] # "" THEN d1 @@ [requirements |-> PyStr(s.plugin[n])] ELSE d1
        d3 == IF n \in s.dag THEN d2 @@ [parent |-> s.parentName[n]] ELSE d2
        d4 == IF serializeConnections(s, n) # <<>>
              THEN d3 @@ [connections |-> serializeConnections(s, n)] ELSE d3
    IN IF serializeAttributes(s, n) # <<>>
       THEN d4 @@ [attributes |-> PyList(serializeAttributes(s, n))] ELSE d4

(* deserializeNode, the loop over the requirements: cmds.loadPlugin(r), and *)
(* `return` (None) at the first one that does not load                      *)
RECURSIVE loadRequirements(_, _)
loadRequirements(s, rs) ==
    IF rs = <<>> THEN R(s, "ok")
    ELSE IF Head(rs) \in s.loadable
    THEN loadRequirements([s EXCEPT !.loaded = @ \cup {Head(rs)}], Tail(rs))
    ELSE R(s, "None")

(* the node createDGNode or createDagNode makes next *)
freshNode(s) ==
    CHOOSE n \in Nodes \ (s.alive \cup s.dead) :
        \A m \in Nodes \ (s.alive \cup s.dead) : n <= m

(* createDGNode(name, nodeType) or createDagNode(name, nodeType) as         *)
(* deserializeNode calls them: a node of that type under that name, the DAG *)
(* node under the world                                                     *)
createNamedNode(s, name, nodeType, isDag) ==
    LET n == freshNode(s)
    IN [createDGNode(s, n) EXCEPT !.nodeName[n] = <<name>>,
                                  !.nodeType[n] = nodeType,
                                  !.dag = IF isDag THEN @ \cup {n} ELSE @]

(* cmds.objExists(name) *)
objExists(s, name) == \E n \in s.alive : s.nodeName[n] = name

(* deserializeNode, the loop over the connections.  No iteration of the     *)
(* loop over the attributes has bound `plug` when this loop runs, so the    *)
(* call connectPlugs(sourcePlug, plug) raises UnboundLocalError; a          *)
(* RuntimeError of findPlug is passed over                                  *)
RECURSIVE deserializeConnections(_, _)
deserializeConnections(s, cons) ==
    IF cons = <<>> THEN R(s, "node")
    ELSE LET con == Head(cons)
         IN IF objExists(s, con[1])
               /\ \E n \in s.alive :
                     /\ s.nodeName[n] = con[1]
                     /\ \E i \in 1..Len(s.plugs[n]) : s.plugs[n][i].name = con[2]
            THEN R(s, "UnboundLocalError")
            ELSE deserializeConnections(s, Tail(cons))

(* deserializeNode from the creation of the node on.  attributes.items() is *)
(* an AttributeError on the list serializeNode stores, and on a dict it     *)
(* yields (key, value) tuples, on which attrData["name"] is a TypeError     *)
deserializeCreate(s, data) ==
    LET s1 == createNamedNode(s, data.name[Len(data.name)], data.type, data.parent # <<>>)
        attributes == IF "attributes" \in DOMAIN data THEN data.attributes ELSE PyDict(<<>>)
    IN IF attributes.py = "list" THEN R(s1, "AttributeError")
       ELSE IF attributes.items # <<>> THEN R(s1, "TypeError")
       ELSE deserializeConnections(s1, IF "connections" \in DOMAIN data
                                       THEN data.connections ELSE <<>>)

(* nodes.deserializeNode(data): "node" is the return of the new node, and   *)
(* indexing a str by "name" is a TypeError                                  *)
deserializeNode(s, data) ==
    IF "py" \in DOMAIN data THEN R(s, "TypeError")
    ELSE IF "parent" \notin DOMAIN data THEN R(s, "KeyError")
    ELSE Then(loadRequirements(s, IF "requirements" \in DOMAIN data
                                  THEN Iter(data.requirements) ELSE <<>>), LAMBDA l :
         IF l.out = "None" THEN l ELSE deserializeCreate(l.s, data))

(* scene.deserializeNodes(data): iter(data) of a dict yields its keys *)
RECURSIVE deserializeNodesLoop(_, _)
deserializeNodesLoop(s, items) ==
    IF items = <<>> THEN R(s, "list")
    ELSE Then(deserializeNode(s, Head(items)), LAMBDA r :
         deserializeNodesLoop(r.s, Tail(items)))

deserializeNodes(s, data) ==
    deserializeNodesLoop(s, IF data.py = "dict"
                            THEN [i \in 1..Len(data.items) |-> PyStr(data.items[i].name)]
                            ELSE data.items)

(* ============================ state machine ============================ *)
NoPlug == <<0, "", -1>>
NoClass == Class("", 0, FALSE)

(* a scene with the given plain nodes and nothing else *)
EmptyScene(alive) ==
    [alive |-> alive, dead |-> {}, nlock |-> {},
     attrs |-> [n \in Nodes |-> {}],
     plock |-> {},
     val |-> [n \in Nodes |-> [a \in StringAttrs |-> ""]],
     name |-> [n \in Nodes |-> 0],
     edges |-> {},
     types |-> <<>>, made |-> FALSE, env |-> EnvUnset]

(* the scene after the nodes were made in the order of their numbers, the   *)
(* way the tests make them: node 1 by MetaBase(name=..., lock=...), which   *)
(* makes the node itself; a later node by createDGNode and, when kind marks *)
(* it "meta" or "locked", MetaBase(node, lock=...) over it                  *)
NodeKinds == {"absent", "plain", "meta", "locked"}

RECURSIVE BuildScene(_, _, _)
BuildScene(s, kind, n) ==
    IF n > NumNodes THEN s
    ELSE IF kind[n] \in {"meta", "locked"}
    THEN BuildScene(IF n = 1
                    THEN MetaFactoryCall(s, MetaBaseClass, 0, n, kind[n] = "locked", "F").s
                    ELSE MetaFactoryCall(createDGNode(s, n), MetaBaseClass, n, 0,
                                         kind[n] = "locked", "F").s,
                    kind, n + 1)
    ELSE IF kind[n] = "plain" THEN BuildScene(createDGNode(s, n), kind, n + 1)
    ELSE BuildScene(s, kind, n + 1)

InitScene(kind, env) ==
    BuildScene([EmptyScene({}) EXCEPT !.env = env], kind, 1)

(* the scene with node 1 made a meta child of node 2 the way addParent      *)
(* connects them: parent.mMetaChildren -> child.mMetaParent[0]             *)
LinkedScene(s) ==
    connectPlugs(s, <<>>, Plug(2, MCHILDREN_ATTR_NAME), Elem(1, MPARENT_ATTR_NAME, 0),
                 FALSE, TRUE).s

(* the record of the last call: what was called, on what, how it ended,     *)
(* and what the scene was like when it was called                          *)
Call(op, n, r) ==
    [op |-> op, n |-> n, a |-> "", b |-> "", t |-> 0, d |-> 0,
     src |-> NoPlug, dst |-> NoPlug, force |-> FALSE, hasMod |-> FALSE,
     out |-> r.out, body |-> r.body, ctx |-> r.ctx,
     stale |-> n # 0 /\ ~exists(scene, n),
     preNL |-> n # 0 /\ exists(scene, n) /\ isLocked(scene, n),
     prePL |-> FALSE, preEdges |-> {}, preAttrs |-> {},
     cls |-> NoClass, req |-> NoClass, pre |-> scene, arg |-> <<>>,
     mid |-> EmptyScene({})]

NoCall ==
    [op |-> "none", n |-> 0, a |-> "", b |-> "", t |-> 0, d |-> 0,
     src |-> NoPlug, dst |-> NoPlug, force |-> FALSE, hasMod |-> FALSE,
     out |-> "none", body |-> FALSE, ctx |-> FALSE, stale |-> FALSE,
     preNL |-> FALSE, prePL |-> FALSE, preEdges |-> {}, preAttrs |-> {},
     cls |-> NoClass, req |-> NoClass, pre |-> EmptyScene({}), arg |-> <<>>,
     mid |-> EmptyScene({})]

Created == scene.alive \cup scene.dead
(* the nodes whose MetaBase wrapper the attribute-level calls are made on *)
Callers == {1} \cap Created
StaleChoice(n) == IF exists(scene, n) THEN {"F"} ELSE StaleOutcomes
More == nops < MaxOps

Did(r, rec) ==
    /\ scene' = r.s
    /\ last' = rec
    /\ nops' = nops + 1
    /\ UNCHANGED <<pending, walk>>

(* names the attribute-level calls are tried with *)
TouchNames == {"testAttr", "rel", MCLASS_ATTR_NAME}
(* the attributes whose lock the lock-state calls set *)
LockNames == {MCLASS_ATTR_NAME, MPARENT_ATTR_NAME}
LockLists == {<<MPARENT_ATTR_NAME, MCHILDREN_ATTR_NAME>>, <<"rel", "testAttr">>}

RemoveAttribute ==
    /\ More
    /\ \E n \in Callers, name \in TouchNames, u \in StaleOutcomes :
         /\ u \in StaleChoice(n)
         /\ LET r == removeAttribute(scene, n, name, u)
            IN Did(r, [Call("removeAttribute", n, r) EXCEPT !.a = name,
                          !.prePL = plugIsLocked(scene, Plug(n, name))])

(* meta.deleteAttribute(name) with a name among the given ones *)
DeleteAttributeOf(names) ==
    /\ More
    /\ \E n \in Callers, name \in names, u \in StaleOutcomes :
         /\ u \in StaleChoice(n)
         /\ LET r == deleteAttribute(scene, n, name, u)
            IN Did(r, [Call("deleteAttribute", n, r) EXCEPT !.a = name])

DeleteAttribute == DeleteAttributeOf(TouchNames)

Rename ==
    /\ More
    /\ \E n \in Callers, u \in StaleOutcomes :
         /\ u \in StaleChoice(n)
         /\ LET r == rename(scene, n, 1, u)
            IN Did(r, Call("rename", n, r))

AddAttribute ==
    /\ More
    /\ \E n \in Callers, name \in {"testAttr", "rel", MPARENT_ATTR_NAME, "odd"},
          value \in {None, "testClass", WrongType, MObject(2)}, lck \in BOOLEAN,
          u \in StaleOutcomes :
         /\ u \in StaleChoice(n)
         /\ name \in MessageAttrs => value # WrongType
         /\ name \in ArrayAttrs => value # None
         /\ name \in UnknownTypeAttrs => (value = None /\ lck)
         /\ value = MObject(2) => (name = "rel" /\ lck /\ exists(scene, 2))
         /\ LET r == addAttribute(scene, n, name, value, lck, u)
            IN Did(r, [Call("addAttribute", n, r) EXCEPT !.a = name, !.b = value,
                          !.prePL = plugIsLocked(scene, Plug(n, name)),
                          !.preAttrs = scene.attrs[n]])

(* nodes.addAttribute(node, name, name, Type) called on the node directly *)
NodesAddAttribute ==
    /\ More
    /\ \E n \in Callers \cap scene.alive, name \in {"testAttr", "rel", MPARENT_ATTR_NAME, "odd"} :
         LET r == nodesAddAttribute(scene, n, name)
         IN Did(r, [Call("nodes.addAttribute", n, r) EXCEPT !.a = name,
                       !.preAttrs = scene.attrs[n]])

RenameAttribute ==
    /\ More
    /\ \E n \in Callers, name \in {"testAttr", MCLASS_ATTR_NAME},
          newName \in {"bob", MVERSION_ATTR_NAME, "rel"}, u \in StaleOutcomes :
         /\ u \in StaleChoice(n)
         /\ newName = "rel" => name = "testAttr"
         /\ LET r == renameAttribute(scene, n, name, newName, u)
            IN Did(r, [Call("renameAttribute", n, r) EXCEPT !.a = name, !.b = newName,
                          !.prePL = plugIsLocked(scene, Plug(n, name)),
                          !.preAttrs = scene.attrs[n]])

DisconnectPlugFromNode ==
    /\ More
    /\ \E n \in Callers, a \in {"rel"}, node \in scene.alive, u \in StaleOutcomes :
         /\ u \in StaleChoice(n)
         /\ node # n
         /\ LET r == disconnectPlugFromNode(scene, n, Plug(n, a), node, u)
            IN Did(r, [Call("disconnectPlugFromNode", n, r) EXCEPT !.a = a, !.t = node])

Delete ==
    /\ More
    /\ \E n \in Callers, u \in StaleOutcomes :
         /\ u \in StaleChoice(n)
         /\ LET r == delete(scene, n, u)
            IN Did(r, [Call("delete", n, r) EXCEPT !.preEdges = scene.edges])

Lock ==
    /\ More
    /\ \E n \in Callers \cap scene.alive, state \in BOOLEAN :
         LET r == lock(scene, n, state)
         IN Did(r, Call("lock", n, r))

PurgeMetaAttributes ==
    /\ More
    /\ \E n \in Callers, u \in StaleOutcomes :
         /\ u \in StaleChoice(n)
         /\ LET r == purgeMetaAttributes(scene, n, u)
            IN Did(r, [Call("purgeMetaAttributes", n, r) EXCEPT !.preAttrs = scene.attrs[n]])

(* plugs.setLockState(plug, state) on an attribute of a node *)
SetLockState ==
    /\ More
    /\ \E n \in Callers \cap scene.alive, a \in LockNames, state \in BOOLEAN :
         /\ hasAttribute(scene, n, a)
         /\ LET r == setLockState(scene, Plug(n, a), state)
            IN Did(r, [Call("setLockState", n, r) EXCEPT !.a = a,
                          !.prePL = plugIsLocked(scene, Plug(n, a))])

(* nodes.setLockStateOnAttributes(node, attributes, state) *)
SetLockStateOnAttributes ==
    /\ More
    /\ \E n \in Callers \cap scene.alive, attributes \in LockLists, state \in BOOLEAN :
         LET r == setLockStateOnAttributes(scene, n, attributes, state)
         IN Did(r, [Call("setLockStateOnAttributes", n, r) EXCEPT !.arg = attributes])

(* nodes.unlockConnectedAttributes(node) *)
UnlockConnectedAttributes ==
    /\ More
    /\ \E n \in Callers \cap scene.alive :
         LET r == unlockConnectedAttributes(scene, n)
         IN Did(r, Call("unlockConnectedAttributes", n, r))

(* nodes.unlockedAndDisconnectConnectedAttributes(node) *)
UnlockedAndDisconnectConnectedAttributes ==
    /\ More
    /\ \E n \in scene.alive :
         LET r == unlockedAndDisconnectConnectedAttributes(scene, n)
         IN Did(r, [Call("unlockedAndDisconnectConnectedAttributes", n, r)
                       EXCEPT !.preEdges = scene.edges])

SetAttribute ==
    /\ More
    /\ \E n \in Callers, attr \in {"testAttr", MCLASS_ATTR_NAME},
          value \in {"testClass", WrongType} :
         LET r == setAttribute(scene, n, attr, value)
         IN Did(r, [Call("setAttribute", n, r) EXCEPT !.a = attr, !.b = value,
                       !.prePL = plugIsLocked(scene, Plug(n, attr))])

ConnectToWith(names) ==
    /\ More
    /\ \E n \in Callers, a \in names, node \in scene.alive, u \in StaleOutcomes :
         /\ u \in StaleChoice(n)
         /\ LET r == connectTo(scene, n, a, node, "metaNode", u)
            IN Did(r, [Call("connectTo", n, r) EXCEPT !.a = a, !.b = "metaNode", !.t = node,
                          !.prePL = plugIsLocked(scene, Plug(n, a)),
                          !.preEdges = scene.edges])

ConnectTo == ConnectToWith({"rel"})

(* plugs.connectPlugs called with plugs from the given sets *)
ConnectPlugsWith(srcs, dsts, mods, forces) ==
    /\ More
    /\ \E src \in srcs, dst \in dsts, hasMod \in mods, force \in forces :
         /\ src # dst
         /\ plugExists(scene, src) /\ plugExists(scene, dst)
         /\ LET r == connectPlugs(scene, pending, src, dst, hasMod, force)
            IN /\ scene' = r.s
               /\ pending' = IF hasMod THEN r.q ELSE pending
               /\ last' = [Call("connectPlugs", 0, r) EXCEPT !.src = src, !.dst = dst,
                              !.force = force, !.hasMod = hasMod,
                              !.prePL = plugIsLocked(scene, dst),
                              !.preEdges = scene.edges]
               /\ nops' = nops + 1
               /\ UNCHANGED walk

ChildrenPlugs == {Plug(n, MCHILDREN_ATTR_NAME) : n \in Nodes}
(* the peer attributes connectTo adds to whatever node it is given, the     *)
(* caller's own included, and leaves locked                                 *)
PeerPlugs == {Plug(n, "metaNode") : n \in Nodes}
ParentElements == {Elem(n, MPARENT_ATTR_NAME, i) : n \in Nodes, i \in Indices}

(* the scenes the runs start from: node 1 carries a MetaBase *)
InitKinds ==
    {k \in [Nodes -> NodeKinds] :
        /\ k[1] \in {"meta", "locked"}
        /\ k[2] \in {"meta", "plain"}
        /\ \A n \in Nodes : n > 2 => k[n] \in {"plain", "absent"}}

InitIn(envs) ==
    /\ \E kind \in InitKinds, linked \in BOOLEAN, env \in envs :
         /\ linked => kind[2] = "meta"
         /\ scene = IF linked THEN LinkedScene(InitScene(kind, env))
                    ELSE InitScene(kind, env)
    /\ pending = <<>>
    /\ last = NoCall
    /\ walk = <<>>
    /\ nops = 0

(* ZOO_META_PATHS is not set where the tests of the repository run *)
Init == InitIn({EnvUnset})
(* the same scenes under every setting of ZOO_META_PATHS *)
EnvInit == InitIn(Envs)

Next ==
    \/ RemoveAttribute
    \/ DeleteAttribute
    \/ Rename
    \/ AddAttribute
    \/ NodesAddAttribute
    \/ RenameAttribute
    \/ DisconnectPlugFromNode
    \/ Delete
    \/ Lock
    \/ SetAttribute
    \/ ConnectTo
    \/ PurgeMetaAttributes
    \/ SetLockState

Spec == Init /\ [][Next]_vars

(* ------------------- the graph of parents and children ----------------- *)
(* scenes whose meta nodes were given parents: par[n] is the parent of n,   *)
(* 0 for none. The edge is made by plugs.connectPlugs, from the parent's    *)
(* mMetaChildren into the first element of the child's mMetaParent: the     *)
(* connection addParent asks for (base.py:833-834) and, raising before it   *)
(* (base.py:832), never makes                                               *)
RECURSIVE LinkParents(_, _, _)
LinkParents(s, par, n) ==
    IF n > NumNodes THEN s
    ELSE IF par[n] = 0 THEN LinkParents(s, par, n + 1)
    ELSE LinkParents(connectPlugs(s, <<>>, Plug(par[n], MCHILDREN_ATTR_NAME),
                                  Elem(n, MPARENT_ATTR_NAME, 0), FALSE, TRUE).s,
                     par, n + 1)

MetaKinds == {"meta", "locked"}

GraphKinds ==
    {k \in [Nodes -> {"meta", "locked", "plain"}] :
        /\ k[1] \in MetaKinds
        /\ k[2] # "locked"
        /\ \A n \in Nodes : n > 2 => k[n] = "plain"}

WalkKinds ==
    {k \in [Nodes -> {"meta", "locked", "plain"}] :
        /\ k[1] \in MetaKinds
        /\ \A n \in Nodes : n > 1 => k[n] # "locked"}

ParentChoices(k) ==
    {par \in [Nodes -> 0..NumNodes] :
        \A n \in Nodes : par[n] # 0 =>
            (par[n] # n /\ k[n] \in MetaKinds /\ k[par[n]] \in MetaKinds)}

(* two MetaBase nodes at most, with or without a parent each, among plain   *)
(* nodes                                                                    *)
GraphInit ==
    /\ \E k \in GraphKinds, env \in {EnvUnset} : \E par \in ParentChoices(k) :
         scene = LinkParents(InitScene(k, env), par, 1)
    /\ pending = <<>>
    /\ last = NoCall
    /\ walk = <<>>
    /\ nops = 0

(* forests, chains and cycles of MetaBase nodes among plain nodes; node 1   *)
(* is locked, as MetaBase(name=..., lock=True) of the tests' setUp leaves it *)
WalkInit ==
    /\ \E k \in WalkKinds, env \in {EnvUnset} : \E par \in ParentChoices(k) :
         /\ k[1] = "locked"
         /\ scene = LinkParents(InitScene(k, env), par, 1)
    /\ pending = <<>>
    /\ last = NoCall
    /\ walk = <<>>
    /\ nops = 0

ConnectToByPlug ==
    /\ More
    /\ \E n \in Callers \cap scene.alive, a \in {MCHILDREN_ATTR_NAME}, node \in scene.alive :
         /\ plugExists(scene, Plug(n, a))
         /\ LET r == connectToByPlug(scene, Plug(n, a), node, "metaNode")
            IN Did(r, [Call("connectToByPlug", n, r) EXCEPT !.a = a, !.b = "metaNode",
                          !.t = node, !.src = Plug(n, a),
                          !.prePL = plugIsLocked(scene, Plug(n, a)),
                          !.preEdges = scene.edges])

AddParentOf(withSelf) ==
    /\ More
    /\ \E n \in Callers \cap scene.alive :
       \E parent \in IF withSelf THEN scene.alive ELSE scene.alive \ {n} :
         LET r == addParent(scene, n, parent)
         IN Did(r, [Call("addParent", n, r) EXCEPT !.a = MPARENT_ATTR_NAME, !.t = parent,
                       !.prePL = plugIsLocked(scene, Plug(n, MPARENT_ATTR_NAME)),
                       !.preEdges = scene.edges])

AddParent == AddParentOf(FALSE)

(* addChild(child), with or without the MetaNode itself as the child *)
AddChildOf(withSelf) ==
    /\ More
    /\ \E n \in Callers \cap scene.alive :
       \E child \in IF withSelf THEN scene.alive ELSE scene.alive \ {n} :
         LET r == addChild(scene, n, child)
         IN Did(r, [Call("addChild", n, r) EXCEPT !.t = child, !.preEdges = scene.edges])

AddChild == AddChildOf(FALSE)

(* removeParent(parent); 0 is removeParent() *)
RemoveParent ==
    /\ More
    /\ \E n \in Callers \cap scene.alive : \E parent \in {0} \cup (scene.alive \ {n}) :
         LET r == removeParent(scene, n, parent)
         IN Did(r, [Call("removeParent", n, r) EXCEPT !.a = MPARENT_ATTR_NAME, !.t = parent,
                       !.prePL = plugIsLocked(scene, Plug(n, MPARENT_ATTR_NAME)),
                       !.preEdges = scene.edges,
                       !.arg = removeParentQueued(scene, n, parent).q,
                       !.mid = removeParentQueued(scene, n, parent).s])

(* meta.removeAllParents(); arg is the batch and mid the scene at the       *)
(* moment mod.doIt() is called                                              *)
RemoveAllParents ==
    /\ More
    /\ \E n \in Callers \cap scene.alive :
         LET r == removeAllParents(scene, n)
         IN Did(r, [Call("removeAllParents", n, r) EXCEPT !.a = MPARENT_ATTR_NAME,
                       !.prePL = plugIsLocked(scene, Plug(n, MPARENT_ATTR_NAME)),
                       !.preEdges = scene.edges,
                       !.arg = removeAllParentsQueued(scene, n).q,
                       !.mid = removeAllParentsQueued(scene, n).s])

(* child.addParent(parent) followed by child.removeParent(parent), the pair *)
(* test_removeParent repeats                                               *)
AddThenRemoveParent ==
    /\ More
    /\ \E n \in Callers \cap scene.alive : \E parent \in scene.alive \ {n} :
         LET r == Then(addParent(scene, n, parent), LAMBDA a : removeParent(a.s, n, parent))
         IN Did(r, [Call("addParent;removeParent", n, r) EXCEPT !.a = MPARENT_ATTR_NAME,
                       !.t = parent, !.preEdges = scene.edges])

(* plugs.disconnectPlug(plug, source, destination) *)
DisconnectPlug ==
    /\ More
    /\ \E plug \in ChildrenPlugs \cup ParentElements, both \in BOOLEAN :
         /\ plugExists(scene, plug)
         /\ LET r == disconnectPlug(scene, plug, TRUE, both)
            IN Did(r, [Call("disconnectPlug", 0, r) EXCEPT !.src = plug,
                          !.preEdges = scene.edges])

(* mod.doIt() by the caller that passed its modifier to connectPlugs *)
ModDoIt ==
    /\ pending # <<>>
    /\ LET r == doIt(scene, pending)
       IN /\ scene' = r.s
          /\ pending' = <<>>
          /\ last' = [Call("doIt", 0, r) EXCEPT !.preEdges = scene.edges]
          /\ UNCHANGED <<walk, nops>>

(* plugs.connectPlugs between metadata plugs: without a modifier, forced or *)
(* not, and with the caller's modifier                                     *)
ConnectPlugs ==
    \/ ConnectPlugsWith(ChildrenPlugs, ParentElements, {FALSE}, BOOLEAN)
    \/ ConnectPlugsWith(ChildrenPlugs, ParentElements, {TRUE}, {TRUE})
    \/ ConnectPlugsWith(ChildrenPlugs, PeerPlugs, {FALSE}, BOOLEAN)

GraphConnectTo == ConnectToWith({MCHILDREN_ATTR_NAME, "rel"})

GraphNext ==
    \/ ConnectPlugs
    \/ ModDoIt
    \/ GraphConnectTo
    \/ ConnectToByPlug
    \/ AddParent
    \/ AddChild
    \/ RemoveParent
    \/ AddThenRemoveParent
    \/ DisconnectPlug

SpecGraph == GraphInit /\ [][GraphNext]_vars

(* addChild, addParent, connectTo and connectToByPlug with any node of the  *)
(* scene, the MetaNode's own node included                                 *)
AddParentAny == AddParentOf(TRUE)
AddChildAny == AddChildOf(TRUE)

SelfNext ==
    \/ GraphConnectTo
    \/ ConnectToByPlug
    \/ AddParentAny
    \/ AddChildAny

SpecSelf == GraphInit /\ [][SelfNext]_vars

(* ---------------------------- nodes.delete ----------------------------- *)
(* nodes.delete(node) on a node of the scene or on one that was deleted;    *)
(* mid is the scene at the moment the deletion command is applied           *)
NodesDelete ==
    /\ More
    /\ \E n \in Created :
         LET r == nodesDelete(scene, n)
         IN Did(r, [Call("nodes.delete", n, r) EXCEPT !.preEdges = scene.edges,
                       !.mid = IF exists(scene, n) THEN nodesDeletePrepare(scene, n).s
                               ELSE scene])

DeleteNext ==
    \/ ConnectTo
    \/ Lock
    \/ SetLockStateOnAttributes
    \/ UnlockConnectedAttributes
    \/ UnlockedAndDisconnectConnectedAttributes
    \/ NodesDelete

SpecDelete == Init /\ [][DeleteNext]_vars

(* ----------------- removing parents from a locked slot ------------------ *)
UnparentNext ==
    \/ SetLockState
    \/ PurgeMetaAttributes
    \/ GraphConnectTo
    \/ RemoveParent
    \/ RemoveAllParents

SpecUnparent == GraphInit /\ [][UnparentNext]_vars

(* ------------------------- disconnectFromNode -------------------------- *)
(* meta.disconnectFromNode(node) *)
DisconnectFromNode ==
    /\ More
    /\ \E n \in Callers, node \in scene.alive, u \in StaleOutcomes :
         /\ u \in StaleChoice(n)
         /\ LET r == disconnectFromNode(scene, n, node, u)
            IN Did(r, [Call("disconnectFromNode", n, r) EXCEPT !.t = node,
                          !.preEdges = scene.edges])

DisconnectNext ==
    \/ ConnectTo
    \/ DisconnectFromNode

SpecDisconnect == Init /\ [][DisconnectNext]_vars

(* ----------------------- registry and construction --------------------- *)
(* the node createDGNode makes next *)
FreshNode == CHOOSE n \in Nodes \ Created : \A m \in Nodes \ Created : n <= m

(* the mClass tag as the caller of the constructor would read it *)
TagOf(s, node) == IF node = 0 THEN "" ELSE classNameFromPlug(s, node)

(* cls(node) or cls(): the constructor of a MetaBase class, node 0 is None *)
Construct ==
    /\ More
    /\ \E cls \in MetaClasses, node \in {0} \cup scene.alive :
         /\ node = 0 => Nodes \ Created # {}
         /\ LET r == MetaFactoryCall(scene, cls, node, IF node = 0 THEN FreshNode ELSE 0,
                                     FALSE, "F")
            IN Did(r, [Call("construct", IF node = 0 THEN FreshNode ELSE node, r)
                          EXCEPT !.t = node, !.b = TagOf(scene, node), !.req = cls,
                                 !.cls = MetaFactoryClass(scene, cls, node),
                                 !.stale = FALSE, !.preNL = FALSE])

(* MetaRegistry.registerMetaClass(classObj) called by the user *)
RegisterMetaClass ==
    /\ More
    /\ \E classObj \in MetaClasses \cup {OtherClass} :
         Did(R(registerMetaClass(scene, classObj), "ok"),
             [Call("registerMetaClass", 0, R(scene, "ok")) EXCEPT !.req = classObj])

(* MetaRegistry().reload(): the scan of ZOO_META_PATHS run again *)
Reload ==
    /\ More
    /\ Did(reload(MetaRegistry(scene)), Call("reload", 0, reload(MetaRegistry(scene))))

FactoryNext ==
    \/ Construct
    \/ RegisterMetaClass
    \/ Reload
    \/ SetAttribute

SpecFactory == EnvInit /\ [][FactoryNext]_vars

(* ------------------------------ traversals ----------------------------- *)
RECURSIVE plugNodes(_)
plugNodes(ps) == IF ps = <<>> THEN <<>> ELSE <<PlugNode(Head(ps))>> \o plugNodes(Tail(ps))

Traversals == {"iterMetaChildren", "iterDependencyGraph", "metaParents", "iterMetaTree",
               "metaParentsRecursive", "isRoot", "metaRoot", "iterSceneMetaNodes",
               "findSceneRoots"}

(* a run builds its graph and then consumes one traversal *)
NotWalked == last.op \notin Traversals

(* list(meta.iterMetaChildren(depthLimit=d)) for meta among the given nodes *)
IterMetaChildrenFrom(starts) ==
    /\ NotWalked
    /\ \E n \in starts \cap scene.alive, d \in DepthLimits :
         /\ n \in Callers \cup {m \in Nodes : hasAttribute(scene, m, MCHILDREN_ATTR_NAME)}
         /\ LET r == iterMetaChildren(scene, n, d)
            IN /\ scene' = r.s
               /\ walk' = iterMetaChildrenNodes(scene, n, d)
               /\ last' = [Call("iterMetaChildren", n, r) EXCEPT !.d = d,
                              !.a = MCHILDREN_ATTR_NAME,
                              !.src = Plug(n, MCHILDREN_ATTR_NAME),
                              !.preEdges = scene.edges]
               /\ UNCHANGED <<pending, nops>>

IterMetaChildren == IterMetaChildrenFrom(Callers)

(* list(plugs.iterDependencyGraph(plug, depthLimit=d)) *)
IterDependencyGraph ==
    /\ NotWalked
    /\ \E n \in Callers \cap scene.alive, a \in {MCHILDREN_ATTR_NAME}, d \in DepthLimits :
         /\ plugExists(scene, Plug(n, a))
         /\ walk' = plugNodes(iterDependencyGraph(scene, Plug(n, a), a, d))
         /\ last' = [Call("iterDependencyGraph", n, R(scene, "ok")) EXCEPT !.d = d,
                        !.a = a, !.src = Plug(n, a), !.preEdges = scene.edges]
         /\ UNCHANGED <<scene, pending, nops>>

(* list(meta.iterMetaTree(depthLimit=d)) for meta among the given nodes *)
IterMetaTreeFrom(starts) ==
    /\ NotWalked
    /\ \E n \in starts \cap scene.alive, d \in DepthLimits :
         /\ n \in Callers \cup {m \in Nodes : hasAttribute(scene, m, MCLASS_ATTR_NAME)}
         /\ LET r == iterMetaTree(scene, n, d)
            IN /\ scene' = r.s
               /\ last' = [Call("iterMetaTree", n, r) EXCEPT !.d = d,
                              !.preEdges = scene.edges]
               /\ UNCHANGED <<pending, nops, walk>>

WalkIterMetaTree == IterMetaTreeFrom(Callers)

(* list(meta.metaParents(recursive=True)) *)
MetaParentsRecursive ==
    /\ NotWalked
    /\ \E n \in Callers \cap scene.alive :
         /\ n \in Callers \cup {m \in Nodes : hasAttribute(scene, m, MPARENT_ATTR_NAME)}
         /\ LET r == metaParentsRecursive(scene, n)
            IN /\ scene' = r.s
               /\ walk' = metaParentsRecursiveNodes(scene, n, 1).nodes
               /\ last' = [Call("metaParentsRecursive", n, r) EXCEPT !.a = MPARENT_ATTR_NAME,
                              !.preEdges = scene.edges]
               /\ UNCHANGED <<pending, nops>>

(* connectTo(mMetaChildren, node) while the graph is being built *)
WalkConnectTo == NotWalked /\ ConnectToWith({MCHILDREN_ATTR_NAME})

WalkNext ==
    \/ WalkConnectTo
    \/ IterMetaChildren
    \/ IterDependencyGraph

SpecWalk == WalkInit /\ [][WalkNext]_vars

(* forests, chains and cycles in which a plain node may also feed the       *)
(* mMetaParent of a MetaBase node, from a message attribute of its own      *)
FeederChoices(k) ==
    {par \in [Nodes -> 0..NumNodes] :
        \A n \in Nodes : par[n] # 0 => (par[n] # n /\ k[n] \in MetaKinds)}

RECURSIVE LinkFeeders(_, _, _, _)
LinkFeeders(s, k, par, n) ==
    IF n > NumNodes THEN s
    ELSE IF par[n] = 0 THEN LinkFeeders(s, k, par, n + 1)
    ELSE IF k[par[n]] \in MetaKinds
    THEN LinkFeeders(connectPlugs(s, <<>>, Plug(par[n], MCHILDREN_ATTR_NAME),
                                  Elem(n, MPARENT_ATTR_NAME, 0), FALSE, TRUE).s,
                     k, par, n + 1)
    ELSE LinkFeeders(connectPlugs(IF hasAttribute(s, par[n], "rel") THEN s
                                  ELSE nodesAddAttribute(s, par[n], "rel").s,
                                  <<>>, Plug(par[n], "rel"),
                                  Elem(n, MPARENT_ATTR_NAME, 0), FALSE, TRUE).s,
                     k, par, n + 1)

CycleInit ==
    /\ \E k \in WalkKinds, env \in Envs : \E par \in FeederChoices(k) :
         scene = LinkFeeders(InitScene(k, env), k, par, 1)
    /\ pending = <<>>
    /\ last = NoCall
    /\ walk = <<>>
    /\ nops = 0

(* the three traversals of MetaBase over the forests, chains and cycles *)
CycleNext ==
    \/ IterMetaChildren
    \/ WalkIterMetaTree
    \/ MetaParentsRecursive

SpecCycle == CycleInit /\ [][CycleNext]_vars

(* ------------------ traversals over nodes that changed ----------------- *)
IterMetaChildrenOfAny == IterMetaChildrenFrom(Nodes)

(* list(meta.metaParents()) *)
MetaParents ==
    /\ NotWalked
    /\ \E n \in scene.alive :
         /\ n \in Callers \cup {m \in Nodes : hasAttribute(scene, m, MPARENT_ATTR_NAME)}
         /\ LET r == metaParents(scene, n)
            IN /\ scene' = r.s
               /\ walk' = metaParentsNodes(scene, n)
               /\ last' = [Call("metaParents", n, r) EXCEPT !.a = MPARENT_ATTR_NAME,
                              !.preEdges = scene.edges]
               /\ UNCHANGED <<pending, nops>>

IterMetaTree == IterMetaTreeFrom(Nodes)

(* --------------------- serialization of single nodes ------------------- *)
(* the dynamic and static attributes the serialized node may carry *)
plugRecord(name, type, value) ==
    [name |-> <<name>>, type |-> type, value |-> value, isDynamic |-> TRUE,
     isDefaultValue |-> FALSE, default |-> None, min |-> None, max |-> None,
     softMin |-> None, softMax |-> None, channelBox |-> FALSE, keyable |-> FALSE,
     locked |-> FALSE, enums |-> <<>>]

StringPlug == [plugRecord("notes", kMFnDataString, "hello") EXCEPT !.locked = TRUE]
EnumPlug ==
    [plugRecord("space", kMFnkEnumAttribute, 1) EXCEPT !.default = 0, !.min = 0, !.max = 2,
        !.enums = <<"world", "local", "parent">>, !.keyable = TRUE]
IntArrayPlug == [plugRecord("ids", kMFnDataIntArray, <<4, 2>>) EXCEPT !.channelBox = TRUE]
MessagePlug == plugRecord("rel", kMFnMessageAttribute, None)
StaticPlug ==
    [plugRecord("caching", kMFnNumericBoolean, TRUE) EXCEPT !.isDynamic = FALSE,
        !.default = FALSE]

(* a float and a distance attribute with limits *)
FloatPlug ==
    [plugRecord("reach", kMFnNumericFloat, 2) EXCEPT !.default = 1, !.min = 0, !.max = 3,
        !.softMin = 1, !.softMax = 2]
DistancePlug ==
    [plugRecord("length", kMFnUnitAttributeDistance, 2) EXCEPT !.min = 0, !.softMax = 2]

PlugLists ==
    {<<>>, <<StaticPlug>>, <<StringPlug>>, <<MessagePlug>>, <<FloatPlug, DistancePlug>>,
     <<EnumPlug, IntArrayPlug>>, <<StringPlug, EnumPlug, IntArrayPlug, MessagePlug>>}

PluginNames == {"mtoa", "gone"}

(* a scene with node 1, of a builtin type or of the type of a plugin, as a  *)
(* dependency node or as a DAG node under the world or under |grp, with the *)
(* given attributes; with node 2 feeding its message attribute when linked  *)
SerialScene(isDag, parentName, plugin, plugList, linked) ==
    LET alive == IF linked THEN {1, 2} ELSE {1}
        base == [EmptyScene(alive) EXCEPT
                    !.edges = IF linked THEN {<<Plug(2, "metaNode"), Plug(1, "rel")>>} ELSE {}]
    IN base @@
       [dag |-> IF isDag THEN {1} ELSE {},
        parentName |-> [n \in Nodes |-> IF n = 1 /\ isDag THEN parentName ELSE <<>>],
        plugin |-> [n \in Nodes |-> IF n = 1 THEN plugin ELSE ""],
        nodeName |-> [n \in Nodes |-> IF n = 1 THEN (IF isDag THEN parentName ELSE <<>>) \o <<"node1">>
                                      ELSE IF n = 2 /\ linked THEN <<"node2">> ELSE <<>>],
        nodeType |-> [n \in Nodes |-> IF n = 1 THEN (IF plugin # "" THEN "aiNode"
                                                     ELSE IF isDag THEN "transform"
                                                     ELSE "network")
                                      ELSE IF n = 2 /\ linked THEN "network" ELSE ""],
        plugs |-> [n \in Nodes |-> IF n = 1 THEN plugList
                                   ELSE IF n = 2 /\ linked
                                   THEN <<plugRecord("metaNode", kMFnMessageAttribute, None)>>
                                   ELSE <<>>],
        loadable |-> {"mtoa"},
        loaded |-> {}]

SerialInit ==
    /\ \E isDag \in BOOLEAN, parentName \in {<<>>, <<"grp">>}, plugin \in {"", "mtoa"},
          plugList \in PlugLists, linked \in BOOLEAN :
         /\ ~isDag => parentName = <<>>
         /\ linked => \E i \in 1..Len(plugList) : plugList[i] = MessagePlug
         /\ scene = SerialScene(isDag, parentName, plugin, plugList, linked)
    /\ pending = <<>>
    /\ last = NoCall
    /\ walk = <<>>
    /\ nops = 0

(* the nodes that can still be created *)
Free == Nodes \ (scene.alive \cup scene.dead)

(* deserializeNode(serializeNode(node)) *)
RoundTrip ==
    /\ More
    /\ Free # {}
    /\ \E n \in {1} \cap scene.alive :
         LET r == deserializeNode(scene, serializeNode(scene, n))
         IN Did(r, [Call("roundTrip", n, r) EXCEPT !.t = freshNode(scene),
                       !.arg = serializeNode(scene, n)])

(* node records written by a caller: with or without the "parent" key, with *)
(* a requirement that loads or one that does not, with attributes given as  *)
(* a dict, with a connection given as (node name, plug name)                *)
CallerRecord(hasParent, req, attrs, cons) ==
    LET d1 == [name |-> <<"new">>, type |-> "network"]
        d2 == IF hasParent THEN d1 @@ [parent |-> <<>>] ELSE d1
        d3 == IF req # "" THEN d2 @@ [requirements |-> PyList(<<req>>)] ELSE d2
        d4 == IF attrs THEN d3 @@ [attributes |-> PyDict(<<serializePlug(StringPlug)>>)] ELSE d3
    IN IF cons THEN d4 @@ [connections |-> <<(<<(<<"node1">>), (<<"notes">>)>>)>>] ELSE d4

CallerRecords ==
    {CallerRecord(hp, req, at, FALSE) : hp \in BOOLEAN, req \in {"", "gone"}, at \in BOOLEAN}
      \cup {CallerRecord(TRUE, "mtoa", FALSE, FALSE), CallerRecord(TRUE, "", FALSE, TRUE)}

DeserializeNode ==
    /\ More
    /\ Free # {}
    /\ \E data \in CallerRecords :
         LET r == deserializeNode(scene, data)
         IN Did(r, [Call("deserializeNode", 0, r) EXCEPT !.t = freshNode(scene),
                       !.arg = data])

(* the list deserializeNodes returns: the nodes it made, in the order it     *)
(* made them                                                               *)
RECURSIVE Ascending(_)
Ascending(S) ==
    IF S = {} THEN <<>>
    ELSE LET m == CHOOSE x \in S : \A y \in S : x <= y
         IN <<m>> \o Ascending(S \ {m})

(* batches of two records as a list, and the dict serializeNodes returns *)
Batches ==
    {PyList(<<a, b>>) : a \in {CallerRecord(TRUE, "gone", FALSE, FALSE),
                               CallerRecord(FALSE, "gone", FALSE, FALSE),
                               CallerRecord(TRUE, "", FALSE, FALSE)},
                        b \in {CallerRecord(TRUE, "", FALSE, FALSE)}}

DeserializeNodes ==
    /\ More
    /\ Cardinality(Free) >= 2
    /\ \E data \in Batches \cup {PyDict(<<serializeNode(scene, 1)>>)} :
         LET r == deserializeNodes(scene, data)
         IN /\ scene' = r.s
            /\ walk' = IF IsErr(r) THEN <<>> ELSE Ascending(r.s.alive \ scene.alive)
            /\ last' = [Call("deserializeNodes", 0, r) EXCEPT !.arg = data]
            /\ nops' = nops + 1
            /\ UNCHANGED pending

SerialNext ==
    \/ RoundTrip
    \/ DeserializeNode
    \/ DeserializeNodes

SpecSerial == SerialInit /\ [][SerialNext]_vars

(* =============================== claims ================================ *)
(* the methods base.py decorates with @lockMetaManager *)
LockManaged ==
    {"delete", "deleteAttribute", "rename", "addAttribute", "removeAttribute",
     "renameAttribute", "disconnectPlugFromNode"}

(* C1: a method wrapped by lockMetaManager, called on a node that exists,   *)
(* runs its body with the node unlocked, and when the call has ended, by    *)
(* return or by exception, a node that still exists has the lock flag it    *)
(* had before the call (locked stays locked, unlocked stays unlocked)       *)
C1_LockRestored ==
    (last.op \in LockManaged /\ ~last.stale) =>
        /\ ~last.body
        /\ exists(scene, last.n) => (isLocked(scene, last.n) <=> last.preNL)

(* a wrapped method raised on a locked node and the node is locked again *)
C1_Witness ==
    /\ last.op \in LockManaged
    /\ last.preNL
    /\ last.out \in Errors
    /\ exists(scene, last.n)
    /\ isLocked(scene, last.n)


(* the methods whose work runs inside `with plugs.setLockedContext(plug)` *)
SlotLockScoped ==
    {"setAttribute", "renameAttribute", "connectTo", "connectToByPlug", "addParent",
     "removeParent"}

(* C2: when the operation inside plugs.setLockedContext(slot) raises, the   *)
(* slot's lock flag after the call equals its lock flag before the call    *)
C2_SlotLockKeptOnRaise ==
    (last.op \in SlotLockScoped /\ last.ctx) =>
        (plugIsLocked(scene, Plug(last.n, last.a)) <=> last.prePL)

(* the outgoing edges of a plug *)
OutEdges(edges, p) == {e \in edges : e[1] = p}

(* an edge that connectTo made before the last call, from the same          *)
(* attribute to the peer attribute of another target                       *)
EarlierTargets ==
    {e \in OutEdges(last.preEdges, Plug(last.n, last.a)) :
        PlugNode(e[2]) \notin {last.n, last.t} /\ PlugAttr(e[2]) = last.b}

ConnectToReturned ==
    last.op = "connectTo" /\ last.out \notin Errors /\ last.t # last.n

(* C5: connectTo("rel", targetA) and then connectTo("rel", targetB)        *)
(* leaves exactly one outgoing edge from "rel", the one to targetB, and     *)
(* targetA no longer has its peer attribute                                 *)
C5_SecondConnectReplacesFirst ==
    (ConnectToReturned /\ EarlierTargets # {}) =>
        /\ OutEdges(scene.edges, Plug(last.n, last.a))
              = {<<Plug(last.n, last.a), Plug(last.t, last.b)>>}
        /\ \A e \in EarlierTargets : ~hasAttribute(scene, PlugNode(e[2]), last.b)

(* the edges of the deleted node as they were before delete() *)
ParentEdgesBefore == {e \in last.preEdges : PlugNode(e[2]) = last.n /\ PlugAttr(e[2]) = MPARENT_ATTR_NAME}
RelationEdgesBefore ==
    {e \in last.preEdges :
        /\ PlugNode(e[1]) = last.n
        /\ PlugAttr(e[2]) = "metaNode"
        /\ ~hasAttribute(scene, PlugNode(e[2]), MCLASS_ATTR_NAME)}

(* C6: after delete() on a node with one parent edge and connectTo edges to *)
(* non-metadata nodes, the host node no longer exists and no peer still     *)
(* carries the attribute that was created to hold the edge                  *)
C6_DeleteLeavesNoPeerAttribute ==
    (/\ last.op = "delete" /\ ~last.stale
     /\ Cardinality(ParentEdgesBefore) = 1
     /\ RelationEdgesBefore # {}) =>
        /\ ~exists(scene, last.n)
        /\ \A e \in RelationEdgesBefore : ~hasAttribute(scene, PlugNode(e[2]), "metaNode")

(* the mutating methods C7 names *)
StaleMutating ==
    {"removeAttribute", "addAttribute", "rename", "delete", "connectTo", "addParent",
     "removeParent"}

(* C7: a mutating method called on a MetaNode whose host node was deleted   *)
(* raises; it never returns normally                                        *)
C7_StaleCallRaises ==
    (last.stale /\ last.op \in StaleMutating) => last.out \in Errors


(* ----------------------- soft limits of a plug -------------------------- *)
(* the soft limits an attribute may have: none, or a value (as python *)
(* prints it)                                                        *)
Limits == {None} \cup {ToString(i) : i \in 0..MaxDepth}

LimitTypes ==
    NumericTypes \cup UnitTypes \cup {kMFnkEnumAttribute, kMFnDataString, kMFnMessageAttribute}

(* a plug of the given type; only numeric and unit attributes carry soft    *)
(* limits                                                                   *)
limitPlug(type, softMin, softMax) ==
    [plugRecord("limit", type, None) EXCEPT
        !.softMin = IF type \in NumericTypes \cup UnitTypes THEN softMin ELSE None,
        !.softMax = IF type \in NumericTypes \cup UnitTypes THEN softMax ELSE None]

(* hasPlugSoftMax(plug) next to getSoftMax(plug); arg is the plug and walk  *)
(* holds what getSoftMax returned                                           *)
HasPlugSoftMax ==
    /\ last.op = "none"
    /\ \E type \in LimitTypes, softMin \in Limits, softMax \in Limits, enumApi \in BOOLEAN :
         LET p == limitPlug(type, softMin, softMax)
         IN /\ last' = [Call("hasPlugSoftMax", 0, R(scene, hasPlugSoftMax(p, enumApi)))
                           EXCEPT !.arg = p]
            /\ walk' = <<getSoftMax(p)>>
            /\ UNCHANGED <<scene, pending, nops>>

SpecLimits == Init /\ [][HasPlugSoftMax]_vars

(* ------------------------- roots of the hierarchy ---------------------- *)
(* MetaBase.isRoot(): `for i in self.metaParents(): return True`, then      *)
(* `return False`; the first parent is wrapped before the return            *)
isRoot(s, n) ==
    IF ~hasAttribute(s, n, MPARENT_ATTR_NAME) THEN R(s, "RuntimeError")
    ELSE IF metaParentsNodes(s, n) = <<>> THEN R(s, "False")
    ELSE Then(wrap(s, metaParentsNodes(s, n)[1]), LAMBDA w : R(w.s, "True"))

(* iterSceneMetaNodes(), run to its end: MetaBase(node=node) for every node *)
(* that has mClass when the iteration reaches it, in scene order; the nodes *)
(* of the instances it yields and the scene the constructions leave         *)
RECURSIVE iterSceneMetaNodesLoop(_, _)
iterSceneMetaNodesLoop(s, ns) ==
    IF ns = <<>> THEN WalkResult(s, <<>>, "ok")
    ELSE IF ~hasAttribute(s, Head(ns), MCLASS_ATTR_NAME)
    THEN iterSceneMetaNodesLoop(s, Tail(ns))
    ELSE ThenWalk(WalkResult(wrap(s, Head(ns)).s, <<>>, wrap(s, Head(ns)).out), LAMBDA w :
         Yielded(<<Head(ns)>>, iterSceneMetaNodesLoop(w.s, Tail(ns))))

iterSceneMetaNodes(s) == iterSceneMetaNodesLoop(s, Ascending(s.alive))

(* findSceneRoots(): the nodes of the metas whose list(meta.metaParents())  *)
(* is empty.  The generator of iterSceneMetaNodes is consumed one meta at a *)
(* time, and list(meta.metaParents()) builds MetaBase(source node) for each *)
(* parent before the next node of the scene is looked at                    *)
RECURSIVE findSceneRootsLoop(_, _)
findSceneRootsLoop(s, ns) ==
    IF ns = <<>> THEN WalkResult(s, <<>>, "ok")
    ELSE IF ~hasAttribute(s, Head(ns), MCLASS_ATTR_NAME)
    THEN findSceneRootsLoop(s, Tail(ns))
    ELSE ThenWalk(WalkResult(wrap(s, Head(ns)).s, <<>>, wrap(s, Head(ns)).out), LAMBDA w :
         ThenWalk(WalkResult(metaParents(w.s, Head(ns)).s, <<>>,
                             metaParents(w.s, Head(ns)).out), LAMBDA m :
         Yielded(IF metaParentsNodes(m.s, Head(ns)) = <<>> THEN <<Head(ns)>> ELSE <<>>,
                 findSceneRootsLoop(m.s, Tail(ns)))))

findSceneRoots(s) == findSceneRootsLoop(s, Ascending(s.alive))

(* the attribute `root` of the nodes, which subclasses add: absent, False   *)
(* or True                                                                  *)
RootFlags == [Nodes -> {"none", "F", "T"}]

(* what metaRoot leaves and returns: the scene, how it ended, and the node  *)
(* of the instance it returned                                              *)
RootResult(s, out, node) == [s |-> s, out |-> out, node |-> node]

(* MetaBase.metaRoot, the for loop over coParents: each one is built with   *)
(* MetaBase(source node) when the loop reaches it, and the first one whose  *)
(* root plug is true is returned; reading root on a node without the        *)
(* attribute raises AttributeError                                          *)
RECURSIVE metaRootFor(_, _, _)
metaRootFor(s, root, coParents) ==
    IF coParents = <<>> THEN RootResult(s, "ok", 0)
    ELSE ThenWalk(RootResult(wrap(s, Head(coParents)).s, wrap(s, Head(coParents)).out, 0),
         LAMBDA w :
         IF root[Head(coParents)] = "none" THEN RootResult(w.s, "AttributeError", 0)
         ELSE IF root[Head(coParents)] = "T" THEN RootResult(w.s, "node", Head(coParents))
         ELSE metaRootFor(w.s, root, Tail(coParents)))

(* MetaBase.metaRoot, the while loop from `parent` on; bound says whether   *)
(* coParent was assigned by an earlier turn, seen holds the values parent   *)
(* had.  `parent = coParent` after a for loop that did not run is an        *)
(* UnboundLocalError on the first turn and leaves parent as it was on later *)
(* turns; parent is never None, so a turn that meets a value of parent      *)
(* again repeats without end                                                *)
RECURSIVE metaRootWhile(_, _, _, _, _)
metaRootWhile(s, root, parent, bound, seen) ==
    IF parent \in seen THEN RootResult(s, "never returns", 0)
    ELSE IF ~hasAttribute(s, parent, MPARENT_ATTR_NAME) THEN RootResult(s, "RuntimeError", 0)
    ELSE ThenWalk(metaRootFor(s, root, metaParentsNodes(s, parent)), LAMBDA f :
         IF metaParentsNodes(s, parent) = <<>>
         THEN IF bound THEN RootResult(f.s, "never returns", 0)
              ELSE RootResult(f.s, "UnboundLocalError", 0)
         ELSE metaRootWhile(f.s, root,
                            metaParentsNodes(s, parent)[Len(metaParentsNodes(s, parent))],
                            TRUE, seen \cup {parent}))

(* MetaBase.metaRoot(): the first parent is built with MetaBase(source      *)
(* node); its while loop never ends normally, so the for loop over          *)
(* self.metaParents() has one turn at most                                  *)
metaRoot(s, root, n) ==
    IF ~hasAttribute(s, n, MPARENT_ATTR_NAME) THEN RootResult(s, "RuntimeError", 0)
    ELSE IF metaParentsNodes(s, n) = <<>> THEN RootResult(s, "None", 0)
    ELSE ThenWalk(RootResult(wrap(s, metaParentsNodes(s, n)[1]).s,
                             wrap(s, metaParentsNodes(s, n)[1]).out, 0), LAMBDA w :
         metaRootWhile(w.s, root, metaParentsNodes(s, n)[1], FALSE, {}))

(* list(iterSceneMetaNodes()); walk is the nodes of the instances *)
IterSceneMetaNodes ==
    /\ NotWalked
    /\ scene' = iterSceneMetaNodes(scene).s
    /\ walk' = iterSceneMetaNodes(scene).nodes
    /\ last' = Call("iterSceneMetaNodes", 0, R(scene, iterSceneMetaNodes(scene).out))
    /\ UNCHANGED <<pending, nops>>

(* findSceneRoots(); walk is the nodes of the instances *)
FindSceneRoots ==
    /\ NotWalked
    /\ scene' = findSceneRoots(scene).s
    /\ walk' = findSceneRoots(scene).nodes
    /\ last' = Call("findSceneRoots", 0, R(scene, findSceneRoots(scene).out))
    /\ UNCHANGED <<pending, nops>>

(* meta.isRoot() and then findSceneRoots(); walk is the list of roots *)
IsRoot ==
    /\ NotWalked
    /\ \E n \in scene.alive :
         /\ hasAttribute(scene, n, MCLASS_ATTR_NAME)
         /\ LET r == isRoot(scene, n)
            IN /\ scene' = IF IsErr(r) THEN r.s ELSE findSceneRoots(r.s).s
               /\ walk' = IF IsErr(r) THEN <<>> ELSE findSceneRoots(r.s).nodes
               /\ last' = [Call("isRoot", n, r) EXCEPT !.a = MPARENT_ATTR_NAME,
                              !.preEdges = scene.edges]
               /\ UNCHANGED <<pending, nops>>

(* meta.metaRoot() in a scene whose nodes carry the given root attributes;  *)
(* walk is the node returned                                                *)
MetaRoot ==
    /\ NotWalked
    /\ \E n \in scene.alive, root \in RootFlags :
         /\ hasAttribute(scene, n, MCLASS_ATTR_NAME)
         /\ LET m == metaRoot(scene, root, n)
            IN /\ scene' = m.s
               /\ walk' = IF m.out = "node" THEN <<m.node>> ELSE <<>>
               /\ last' = [Call("metaRoot", n, R(m.s, m.out)) EXCEPT
                              !.a = MPARENT_ATTR_NAME, !.arg = root,
                              !.preEdges = scene.edges]
               /\ UNCHANGED <<pending, nops>>

RootsNext ==
    \/ IterSceneMetaNodes
    \/ FindSceneRoots
    \/ IsRoot
    \/ MetaRoot

SpecRoots == CycleInit /\ [][RootsNext]_vars

(* ---------------- traversals over nodes that changed, run -------------- *)
(* attributes deleted and node locks set before a traversal runs *)
TraverseNext ==
    \/ (NotWalked /\ DeleteAttributeOf(TouchNames \cup {MVERSION_ATTR_NAME, MPARENT_ATTR_NAME}))
    \/ (NotWalked /\ Lock)
    \/ (NotWalked /\ PurgeMetaAttributes)
    \/ IterMetaChildrenOfAny
    \/ MetaParents
    \/ IterMetaTree
    \/ IterSceneMetaNodes
    \/ FindSceneRoots

SpecTraverse == EnvInit /\ [][TraverseNext]_vars

(* ---- what a traversal is expected to yield, from the edges it ran on --- *)
Range(seq) == {seq[i] : i \in 1..Len(seq)}

(* the nodes one hop below node n along attribute name: the peers of the    *)
(* destinations of n.name that have an attribute of that name               *)
Below(n, name) ==
    {PlugNode(e[2]) : e \in {x \in OutEdges(last.preEdges, Plug(n, name)) :
                                hasAttribute(scene, PlugNode(x[2]), name)}}

RECURSIVE Level(_, _, _)
Level(n, name, k) ==
    IF k = 0 THEN {n}
    ELSE UNION {Below(m, name) : m \in Level(n, name, k - 1)}

Within(n, name, d) == UNION {Level(n, name, k) : k \in 1..d}

Walked == last.op \in {"iterMetaChildren", "iterDependencyGraph"}

(* the edges between mMetaChildren and mMetaParent, as <<parent, child>> *)
ChildPairs ==
    {<<PlugNode(e[1]), PlugNode(e[2])>> :
        e \in {x \in last.preEdges : PlugAttr(x[1]) = MCHILDREN_ATTR_NAME}}

(* a parent/child tree of MetaNodes: every mMetaChildren edge ends in the   *)
(* mMetaParent of a MetaNode, no node has two parents, no node is below     *)
(* itself                                                                   *)
IsTree ==
    /\ \A e \in last.preEdges :
          PlugAttr(e[1]) = MCHILDREN_ATTR_NAME =>
              /\ PlugAttr(e[2]) = MPARENT_ATTR_NAME
              /\ hasAttribute(scene, PlugNode(e[2]), MCHILDREN_ATTR_NAME)
    /\ \A c \in Nodes : Cardinality({p \in ChildPairs : p[2] = c}) <= 1
    /\ \A m \in Nodes : m \notin Within(m, MCHILDREN_ATTR_NAME, NumNodes)

(* C3: on a parent/child tree, iterMetaChildren(depthLimit=d) yields each   *)
(* descendant at distance 1..d from the start node exactly once and no      *)
(* other node, and nothing when d < 1                                       *)
C3_DepthBoundedDescendants ==
    (last.op = "iterMetaChildren" /\ IsTree) =>
        /\ Range(walk) = Within(last.n, MCHILDREN_ATTR_NAME, last.d)
        /\ Len(walk) = Cardinality(Within(last.n, MCHILDREN_ATTR_NAME, last.d))
        /\ last.d < 1 => walk = <<>>

(* a chain of two nodes below the start, walked with a limit that reaches   *)
(* both                                                                     *)
C3_Witness ==
    /\ last.op = "iterMetaChildren"
    /\ IsTree
    /\ last.d >= 2
    /\ Len(walk) = 2
    /\ <<last.n, walk[1]>> \in ChildPairs
    /\ <<walk[1], walk[2]>> \in ChildPairs

(* C8: iterDependencyGraph from a slot named N yields exactly the nodes     *)
(* reached by hops that end on a node with an attribute named N and go on   *)
(* from that attribute; a peer without N is not yielded, and the other      *)
(* edges of the same slot are still followed                                *)
C8_MissingAttributeEndsBranchOnly ==
    Walked => Range(walk) = Within(last.n, last.a, last.d)

(* the slot feeds a peer without the attribute and, later in the order of   *)
(* its destinations, a peer with it, and the second was yielded             *)
C8_Witness ==
    /\ Walked
    /\ \E e1, e2 \in OutEdges(last.preEdges, last.src) :
          /\ PlugRank(e1[2]) < PlugRank(e2[2])
          /\ ~hasAttribute(scene, PlugNode(e1[2]), last.a)
          /\ hasAttribute(scene, PlugNode(e2[2]), last.a)
          /\ PlugNode(e2[2]) \in Range(walk)
          /\ PlugNode(e1[2]) \notin Range(walk)

(* the incoming edges of a plug *)
InEdges(edges, p) == {e \in edges : e[2] = p}

(* C9: connectPlugs(source, destination, force=False) on a destination that *)
(* has an incoming edge raises and leaves every edge unchanged; with        *)
(* force=True the existing incoming edge is removed and the destination's   *)
(* only incoming edge afterwards comes from source                          *)
C9_OccupiedDestination ==
    (/\ last.op = "connectPlugs" /\ ~last.hasMod
     /\ InEdges(last.preEdges, last.dst) # {}) =>
        /\ ~last.force => (last.out \in Errors /\ scene.edges = last.preEdges)
        /\ last.force =>
              /\ last.out \notin Errors
              /\ InEdges(scene.edges, last.dst) = {<<last.src, last.dst>>}

(* C4: a MetaBase class called on an existing node whose mClass names a     *)
(* registered type T yields an instance of T, whatever class the caller     *)
(* invoked; on a node without the tag, or with a tag that names no          *)
(* registered type, the instance is of the class the caller invoked         *)
C4_Rehydration ==
    (last.op = "construct" /\ last.t # 0) =>
        IF last.b \in DOMAIN scene.types
        THEN last.cls = scene.types[last.b]
        ELSE last.cls = last.req

(* a node that carries the parent and children slots of a meta node *)
IsMeta(s, n) ==
    hasAttribute(s, n, MPARENT_ATTR_NAME) /\ hasAttribute(s, n, MCHILDREN_ATTR_NAME)

(* how many times x occurs in a sequence *)
Count(seq, x) == Cardinality({i \in 1..Len(seq) : seq[i] = x})

(* C11: after parent.addChild(child) between two meta nodes, whatever meta  *)
(* parents child had before, child has exactly one meta parent, which is    *)
(* parent, and parent.iterMetaChildren(depthLimit=1) yields child exactly   *)
(* once                                                                     *)
C11_AddChildSingleParent ==
    (/\ last.op = "addChild"
     /\ IsMeta(last.pre, last.n) /\ IsMeta(last.pre, last.t)) =>
        /\ metaParentsNodes(scene, last.t) = <<last.n>>
        /\ Count(iterMetaChildrenNodes(scene, last.n, 1), last.t) = 1

(* C12: child.addParent(p) between two meta nodes leaves p as the only meta *)
(* parent of child: metaParents() yields p and none of the parents child    *)
(* had before, and no previous parent's iterMetaChildren() yields child     *)
C12_AddParentReplaces ==
    (/\ last.op = "addParent"
     /\ IsMeta(last.pre, last.n) /\ IsMeta(last.pre, last.t)) =>
        /\ Range(metaParentsNodes(scene, last.n)) = {last.t}
        /\ \A p1 \in Range(metaParentsNodes(last.pre, last.n)) \ {last.t} :
              last.n \notin Range(iterMetaChildrenNodes(scene, p1, NumNodes))

(* the edges into the elements of node n's mMetaParent *)
ParentEdges(s, n) ==
    {e \in s.edges : PlugNode(e[2]) = n /\ PlugAttr(e[2]) = MPARENT_ATTR_NAME}

(* what removeParent(p) is to take away: the parent edges of n that come    *)
(* from p, all of them when p is 0 (None)                                   *)
EdgesFrom(s, n, p) ==
    {e \in ParentEdges(s, n) : p = 0 \/ PlugNode(e[1]) = p}

(* C13: child.removeParent(p) removes every parent edge from p to child and *)
(* no other edge, removeParent() removes all of child's parent edges, and   *)
(* the pair addParent(p), removeParent(p) runs to its end and leaves        *)
(* p.iterMetaChildren() yielding what it yielded before the pair            *)
C13_RemoveParent ==
    /\ (last.op = "removeParent" /\ IsMeta(last.pre, last.n)) =>
          scene.edges = last.pre.edges \ EdgesFrom(last.pre, last.n, last.t)
    /\ (/\ last.op = "addParent;removeParent"
        /\ IsMeta(last.pre, last.n) /\ IsMeta(last.pre, last.t)) =>
          /\ last.out \notin Errors
          /\ iterMetaChildrenNodes(scene, last.t, NumNodes)
               = iterMetaChildrenNodes(last.pre, last.t, NumNodes)

MetaAttributeNames ==
    {MCLASS_ATTR_NAME, MVERSION_ATTR_NAME, MPARENT_ATTR_NAME, MCHILDREN_ATTR_NAME}

(* C14: a MetaBase class T called with no node makes a host node that has   *)
(* mClass, mVersion, mMetaParent and mMetaChildren, with mClass holding the *)
(* name of T and locked; a MetaBase class called over a node that carries   *)
(* mClass, whatever class was requested, leaves the value of mClass as it   *)
(* was                                                                      *)
C14_TagWrittenOnce ==
    /\ (last.op = "construct" /\ last.t = 0) =>
          /\ last.out \notin Errors
          /\ MetaAttributeNames \subseteq scene.attrs[last.n]
          /\ scene.val[last.n][MCLASS_ATTR_NAME] = last.req.name
          /\ plugIsLocked(scene, Plug(last.n, MCLASS_ATTR_NAME))
    /\ (/\ last.op = "construct" /\ last.t # 0
        /\ hasAttribute(last.pre, last.t, MCLASS_ATTR_NAME)) =>
          scene.val[last.t][MCLASS_ATTR_NAME] = last.pre.val[last.t][MCLASS_ATTR_NAME]

(* a class of another name was called over a node tagged MetaBase and the   *)
(* tag still reads MetaBase                                                 *)
C14_Witness ==
    /\ last.op = "construct" /\ last.t # 0
    /\ last.out \notin Errors
    /\ last.pre.val[last.t][MCLASS_ATTR_NAME] = "MetaBase"
    /\ last.req.name # "MetaBase"
    /\ scene.val[last.t][MCLASS_ATTR_NAME] = "MetaBase"
    /\ plugIsLocked(scene, Plug(last.t, MCLASS_ATTR_NAME))

(* the value, the lock flag and the node lock that an attribute-level call  *)
(* on attribute a of node n is to leave alone                               *)
SameAttribute(s1, s2, n, a) ==
    /\ a \in s2.attrs[n]
    /\ (a \in StringAttrs => s2.val[n][a] = s1.val[n][a])
    /\ plugIsLocked(s2, Plug(n, a)) <=> plugIsLocked(s1, Plug(n, a))
    /\ isLocked(s2, n) <=> isLocked(s1, n)

(* C15: MetaBase.addAttribute called with a name the node already has      *)
(* fails (returns no slot or raises) and leaves the attribute's value and   *)
(* lock flag, and the node's lock flag, unchanged                           *)
C15_ExistingNameFails ==
    (last.op = "addAttribute" /\ last.a \in last.preAttrs) =>
        /\ last.out \in Errors \cup {"None"}
        /\ SameAttribute(last.pre, scene, last.n, last.a)

(* C16: nodes.addAttribute(node, longName, ...) on a node that already has  *)
(* an attribute named longName raises the ValueError of its docstring, for  *)
(* a string, a message and an array attribute alike, and leaves the scene   *)
(* as it was                                                                *)
C16_PrimitiveRefusesDuplicate ==
    (last.op = "nodes.addAttribute" /\ last.a \in last.preAttrs) =>
        /\ last.out = "ValueError"
        /\ scene = last.pre

(* the primitive was called for mMetaParent on a meta node and raised *)
C16_Witness ==
    /\ last.op = "nodes.addAttribute"
    /\ last.a = MPARENT_ATTR_NAME /\ last.a \in last.preAttrs
    /\ last.out = "ValueError"
    /\ scene = last.pre

(* the attribute records of a node record *)
Recorded(data) ==
    IF "attributes" \in DOMAIN data THEN data.attributes.items ELSE <<>>

(* C17: deserializeNode(serializeNode(node)) of a node with dynamically     *)
(* added attributes, DAG node or not, returns a new node on which every     *)
(* recorded dynamic attribute is there again and serializes to the same     *)
(* record: the same kind, value, keyable, channel-box and locked flags,      *)
(* default, min and max                                                     *)
C17_RoundTripKeepsAttributes ==
    (/\ last.op = "roundTrip"
     /\ \E i \in 1..Len(Recorded(last.arg)) : Recorded(last.arg)[i].isDynamic) =>
        /\ last.out = "node"
        /\ \A i \in 1..Len(Recorded(last.arg)) :
              Recorded(last.arg)[i].isDynamic =>
                 \E j \in 1..Len(scene.plugs[last.t]) :
                    serializePlug(scene.plugs[last.t][j]) = Recorded(last.arg)[i]

(* a record that names a requirement the host cannot load *)
Unloadable(s, data) ==
    /\ "py" \notin DOMAIN data
    /\ "requirements" \in DOMAIN data
    /\ \E i \in 1..Len(Iter(data.requirements)) : Iter(data.requirements)[i] \notin s.loadable

(* C18: deserializeNode of a record that names a requirement that cannot be *)
(* loaded returns None without raising and creates no node, and             *)
(* deserializeNodes over a list with such a record returns without raising  *)
(* the created node of every other record                                   *)
C18_UnloadableRequirementSkipped ==
    /\ (last.op = "deserializeNode" /\ Unloadable(last.pre, last.arg)) =>
          /\ last.out = "None"
          /\ scene.alive = last.pre.alive
    /\ (/\ last.op = "deserializeNodes" /\ last.arg.py = "list"
        /\ \E i \in 1..Len(last.arg.items) : Unloadable(last.pre, last.arg.items[i])) =>
          /\ last.out = "list"
          /\ Len(walk) = Cardinality({i \in 1..Len(last.arg.items) :
                                         ~Unloadable(last.pre, last.arg.items[i])})
          /\ Range(walk) = scene.alive \ last.pre.alive

(* C19: registering a class under a name that is already in the registry    *)
(* leaves the entry of that name on the class registered first, a scan of   *)
(* the environment run again leaves every entry as it was, and a class that *)
(* does not derive from MetaBase is never added                             *)
C19_RegistryKeepsFirst ==
    /\ (last.op = "registerMetaClass" /\ last.req.name \in DOMAIN last.pre.types) =>
          scene.types = last.pre.types
    /\ (last.op = "registerMetaClass" /\ ~last.req.meta) =>
          scene.types = last.pre.types
    /\ last.op = "reload" =>
          \A name \in DOMAIN last.pre.types : scene.types[name] = last.pre.types[name]

(* what a traversal is to leave alone: the nodes, their attributes and      *)
(* values, the edges, and the node and slot lock flags                      *)
NodeState(s) == <<s.alive, s.attrs, s.val, s.edges, s.nlock, s.plock>>

(* C20: when iterMetaChildren, iterMetaTree or metaParents has run to its   *)
(* end, every node's attributes and attribute values, the edges, and the    *)
(* node and slot lock flags are what they were before the traversal         *)
(* started, also when visited nodes are locked or lack some of the standard *)
(* meta attributes                                                          *)
C20_TraversalsDoNotMutate ==
    last.op \in {"iterMetaChildren", "iterMetaTree", "metaParents"} =>
        NodeState(scene) = NodeState(last.pre)

(* the most plugs a walk of depth d can yield: every plug has at most       *)
(* NumNodes * MaxIdx + NumNodes destinations                                *)
RECURSIVE StepBound(_)
StepBound(d) ==
    IF d < 1 THEN 0 ELSE (NumNodes * MaxIdx + NumNodes) * (1 + StepBound(d - 1))

(* C21: every traversal, run to its end over a finite graph, cycles of      *)
(* parent/child edges included, ends without an exception: iterMetaChildren *)
(* after at most StepBound(depthLimit) yields, iterMetaTree within its      *)
(* depth limit, and metaParents(recursive=True) without exhausting the      *)
(* interpreter's stack                                                      *)
C21_TraversalsTerminate ==
    /\ last.op = "iterMetaChildren" =>
          (last.out \notin Errors /\ Len(walk) <= StepBound(last.d))
    /\ last.op = "iterMetaTree" => last.out \notin Errors
    /\ last.op = "metaParentsRecursive" =>
          (last.out \notin Errors /\ Len(walk) <= NumNodes)

(* C22: after any sequence of addChild, addParent, connectTo and            *)
(* connectToByPlug calls, whatever their arguments, no edge has its source  *)
(* slot and its destination slot on the same node                           *)
C22_NoSelfLoop ==
    \A e \in scene.edges : PlugNode(e[1]) # PlugNode(e[2])

(* the plugs of node n that have an edge, incoming or outgoing, in scene s *)
ConnectedPlugs(s, n) ==
    {e[1] : e \in {x \in s.edges : PlugNode(x[1]) = n}}
        \cup {e[2] : e \in {x \in s.edges : PlugNode(x[2]) = n}}

(* C23: at the moment nodes.delete(node) applies the deletion command the   *)
(* node is unlocked, and every attribute of the node that was locked and    *)
(* had an edge, incoming or outgoing, is unlocked and has no edge; on a     *)
(* node that no longer exists the call changes nothing                      *)
C23_DeleteUnlocksFirst ==
    last.op = "nodes.delete" =>
        IF last.n \in last.pre.alive
        THEN /\ ~isLocked(last.mid, last.n)
             /\ \A p \in ConnectedPlugs(last.pre, last.n) :
                   plugIsLocked(last.pre, p) =>
                       /\ ~plugIsLocked(last.mid, p)
                       /\ p \notin ConnectedPlugs(last.mid, last.n)
        ELSE scene = last.pre

(* C24: connectPlugs given the caller's modifier changes no edge, also with *)
(* force=True on a destination that has an incoming edge; connectPlugs      *)
(* given no modifier and returning normally has applied the whole connect:  *)
(* the destination's only incoming edge comes from source                   *)
C24_BatchDefersEdges ==
    last.op = "connectPlugs" =>
        IF last.hasMod
        THEN scene.edges = last.preEdges
        ELSE last.out \notin Errors =>
                {e \in scene.edges : e[2] = last.dst} = {<<last.src, last.dst>>}

(* C25 as stated: renameAttribute(name, newName) on a MetaNode whose node   *)
(* has the attribute name returns with the node having newName and not      *)
(* name, the attribute's lock flag and the node's lock flag as before the   *)
(* call; when the node has no attribute name the call raises AttributeError *)
(* and leaves the scene, the node's lock flag included, as it was           *)
C25_RenameAlwaysRenames ==
    (last.op = "renameAttribute" /\ ~last.stale) =>
        IF last.a \in last.preAttrs
        THEN /\ last.out \notin Errors
             /\ last.b \in scene.attrs[last.n]
             /\ last.a \notin scene.attrs[last.n]
             /\ plugIsLocked(scene, Plug(last.n, last.b)) = last.prePL
             /\ isLocked(scene, last.n) = last.preNL
        ELSE /\ last.out = "AttributeError"
             /\ scene = last.pre

(* C25: renameAttribute(name, newName) on a MetaNode whose node has the     *)
(* attribute name and no attribute newName returns with the node having     *)
(* newName and not name, the attribute's lock flag and the node's lock flag *)
(* as before the call; when the node already has an attribute newName the   *)
(* call raises RuntimeError, the node keeps its attributes and its lock     *)
(* flag; when the node has no attribute name the call raises AttributeError *)
(* and leaves the scene, the node's lock flag included, as it was           *)
C25_RenameAttribute ==
    (last.op = "renameAttribute" /\ ~last.stale) =>
        IF last.a \in last.preAttrs /\ last.b \notin last.preAttrs
        THEN /\ last.out \notin Errors
             /\ last.b \in scene.attrs[last.n]
             /\ last.a \notin scene.attrs[last.n]
             /\ plugIsLocked(scene, Plug(last.n, last.b)) = last.prePL
             /\ isLocked(scene, last.n) = last.preNL
        ELSE IF last.a \in last.preAttrs
        THEN /\ last.out = "RuntimeError"
             /\ scene.attrs = last.pre.attrs
             /\ isLocked(scene, last.n) = last.preNL
        ELSE /\ last.out = "AttributeError"
             /\ scene = last.pre

(* a locked attribute of a locked node was renamed *)
C25_Witness ==
    /\ last.op = "renameAttribute" /\ ~last.stale
    /\ last.a \in last.preAttrs /\ last.b \notin last.preAttrs
    /\ last.prePL /\ last.preNL
    /\ last.out = "True"
    /\ last.b \in scene.attrs[last.n]

(* the edges of scene s from an attribute of node n to an attribute of      *)
(* node t                                                                   *)
EdgesBetween(s, n, t) ==
    {e \in s.edges : PlugNode(e[1]) = n /\ PlugNode(e[2]) = t}

(* C26: disconnectFromNode(node) returns True exactly when an edge leads    *)
(* from an attribute of the MetaNode to an attribute of node; then one such *)
(* edge is gone and the attribute of node that held it is deleted;          *)
(* otherwise it returns False and the scene is unchanged                    *)
C26_DisconnectFromNode ==
    (last.op = "disconnectFromNode" /\ ~last.stale) =>
        IF EdgesBetween(last.pre, last.n, last.t) # {}
        THEN /\ last.out = "True"
             /\ \E e \in EdgesBetween(last.pre, last.n, last.t) :
                   /\ e \notin scene.edges
                   /\ ~hasAttribute(scene, last.t, PlugAttr(e[2]))
        ELSE /\ last.out = "False"
             /\ scene = last.pre

(* C27: when removeParent or removeAllParents applies its batch of          *)
(* disconnects, the mMetaParent slot is unlocked: a slot that was locked    *)
(* before the call is still unlocked at the moment the batch is applied     *)
C27_DisconnectWhileUnlocked ==
    (/\ last.op \in {"removeParent", "removeAllParents"}
     /\ last.prePL
     /\ last.arg # <<>>) =>
        ~plugIsLocked(last.mid, Plug(last.n, MPARENT_ATTR_NAME))

(* C28: isRoot() returns True exactly when the MetaNode has no connected    *)
(* meta parent, that is exactly when it is in the result of                 *)
(* findSceneRoots()                                                         *)
C28_IsRootMatchesSceneRoots ==
    last.op = "isRoot" =>
        /\ last.out \in {"True", "False"}
        /\ (last.out = "True") <=> (\E i \in 1..Len(walk) : walk[i] = last.n)
        /\ (last.out = "True") <=> (\A e \in last.pre.edges :
               ~(PlugNode(e[2]) = last.n /\ PlugAttr(e[2]) = MPARENT_ATTR_NAME))

(* the metas that node n reaches over parent edges in at most k steps *)
RECURSIVE AncestorsWithin(_, _, _)
AncestorsWithin(s, n, k) ==
    IF k = 0 THEN {}
    ELSE LET ps == {metaParentsNodes(s, n)[i] : i \in 1..Len(metaParentsNodes(s, n))}
         IN ps \cup UNION {AncestorsWithin(s, p, k - 1) : p \in ps}

Ancestors(s, n) == AncestorsWithin(s, n, NumNodes)

Acyclic(s) == \A n \in s.alive : n \notin Ancestors(s, n)

(* C29: on an acyclic parent graph metaRoot() returns: an ancestor whose    *)
(* root flag is true when there is one, and None, without failing, when     *)
(* there is none                                                            *)
C29_MetaRootReturns ==
    (last.op = "metaRoot" /\ Acyclic(last.pre)) =>
        IF \E a \in Ancestors(last.pre, last.n) : last.arg[a] = "T"
        THEN /\ last.out = "node"
             /\ walk[1] \in Ancestors(last.pre, last.n)
             /\ last.arg[walk[1]] = "T"
        ELSE last.out = "None"

(* C30: for a numeric or unit attribute hasPlugSoftMax(plug) is True        *)
(* exactly when the attribute has a soft maximum, that is exactly when      *)
(* getSoftMax(plug) returns a value, whatever its soft minimum; for an      *)
(* enum attribute it is True exactly when the attribute has a soft maximum, *)
(* and for every other kind it is False                                     *)
C30_SoftMaxAnswersSoftMax ==
    last.op = "hasPlugSoftMax" =>
        /\ last.out \in {"True", "False"}
        /\ (last.out = "True") <=> (last.arg.softMax # None)
        /\ last.arg.type \in NumericTypes \cup UnitTypes =>
              ((last.out = "True") <=> (walk[1] # None))

====
